---- MODULE Spec2Model ----
(***************************************************************************)
(* World generator of MacintoshCraft: seeded chunk hash, biome map,        *)
(* terrain synthesis, the chunk section builder, the chunk section cache   *)
(* (src/src/worldgen.c) and the sorted block-change overlay                *)
(* (src/tests/test_binary_search.c).                                       *)
(*                                                                         *)
(* Unsigned machine words wider than 31 bits are kept as little-endian     *)
(* sequences of bytes (limbs), because the checker's integers are 32-bit  *)
(* signed.  A uint32 is 4 limbs, a uint64 is 8 limbs.                      *)
(***************************************************************************)
EXTENDS Integers, Sequences, FiniteSets, TLC

\* ------------------------------------------------------------------------
\* Machine arithmetic on limbs
\* ------------------------------------------------------------------------

Pow2(n) == 2 ^ n

\* bit i (0 = least significant) of the limb sequence w; 0 beyond its width
BitOf(w, i) ==
  IF i < 0 \/ i >= 8 * Len(w) THEN 0
  ELSE (w[(i \div 8) + 1] \div Pow2(i % 8)) % 2

\* a ^ b on 4-bit values, tabulated
XOR4 ==
  [a \in 0..15 |-> [b \in 0..15 |->
      ((a + b) % 2)
    + 2 * (((a \div 2) + (b \div 2)) % 2)
    + 4 * (((a \div 4) + (b \div 4)) % 2)
    + 8 * (((a \div 8) + (b \div 8)) % 2)]]

XorByte(a, b) == 16 * XOR4[a \div 16][b \div 16] + XOR4[a % 16][b % 16]

\* the limb sequence of n limbs whose limb k (from 0) is limb(k)
RECURSIVE LimbsFrom(_, _, _)
LimbsFrom(n, limb(_), k) ==
  IF k >= n THEN << >> ELSE << limb(k) >> \o LimbsFrom(n, limb, k + 1)

\* the function with domain the elements of keys and value F(key), built
\* entry by entry
RECURSIVE TableFrom(_, _, _)
TableFrom(keys, F(_), k) ==
  IF k > Len(keys) THEN << >>
  ELSE (keys[k] :> F(keys[k])) @@ TableFrom(keys, F, k + 1)

\* F(v) with v computed once, where F names the value in what follows
Bind(v, F(_)) == CHOOSE out \in { F(w) : w \in {v} } : TRUE

\* a ^ b on words of equal width
XorW(a, b) ==
  LET limb(k) == XorByte(a[k + 1], b[k + 1]) IN LimbsFrom(Len(a), limb, 0)

\* a >> s (logical) on an unsigned word, 0 <= s
ShrW(a, s) ==
  LET q == s \div 8
      r == s % 8
      at(k) == IF k + 1 > Len(a) THEN 0 ELSE a[k + 1]
      limb(k) == (at(k + q) \div Pow2(r)) + (at(k + q + 1) % Pow2(r)) * Pow2(8 - r)
  IN  LimbsFrom(Len(a), limb, 0)

RECURSIVE AddLimbs(_, _, _, _)
AddLimbs(a, b, k, carry) ==
  IF k > Len(a) THEN << >>
  ELSE LET t == a[k] + b[k] + carry
       IN  << t % 256 >> \o AddLimbs(a, b, k + 1, t \div 256)

\* a + b modulo 2^(8*Len(a))
AddW(a, b) == AddLimbs(a, b, 1, 0)

RECURSIVE ColSum(_, _, _, _)
ColSum(a, b, k, i) ==
  IF i > k THEN 0 ELSE a[i] * b[k + 1 - i] + ColSum(a, b, k, i + 1)

RECURSIVE MulLimbs(_, _, _, _)
MulLimbs(a, b, k, carry) ==
  IF k > Len(a) THEN << >>
  ELSE LET t == ColSum(a, b, k, 1) + carry
       IN  << t % 256 >> \o MulLimbs(a, b, k + 1, t \div 256)

\* a * b modulo 2^(8*Len(a))
MulW(a, b) == MulLimbs(a, b, 1, 0)

\* the n-limb two's complement word of the integer v (|v| < 2^31)
RECURSIVE ToLimbs(_, _)
ToLimbs(v, n) ==
  IF n = 0 THEN << >>
  ELSE << v % 256 >> \o ToLimbs((v - (v % 256)) \div 256, n - 1)

\* (w >> shift) & mask for a small mask = 2^width - 1, as an integer
RECURSIVE Field(_, _, _)
Field(w, shift, width) ==
  IF width = 0 THEN 0
  ELSE BitOf(w, shift) + 2 * Field(w, shift + 1, width - 1)

\* w % m for a small modulus m
RECURSIVE ModW(_, _, _)
ModW(w, m, k) ==
  IF k = 0 THEN 0 ELSE (ModW(w, m, k - 1) + (w[k] % m) * ((Pow2(8 * (k - 1))) % m)) % m

\* ------------------------------------------------------------------------
\* tools.c / tools.h
\* ------------------------------------------------------------------------

\* C's % and / truncate toward zero
CRem(a, b) == IF a >= 0 THEN a % b ELSE -((-a) % b)
CDiv(a, b) == IF a >= 0 THEN a \div b ELSE -((-a) \div b)

mod_abs(a, b) == CRem(CRem(a, b) + b, b)
div_floor(a, b) == IF CRem(a, b) < 0 THEN CDiv(a - b, b) ELSE CDiv(a, b)

SM_GOLDEN == << 21, 124, 74, 127, 185, 121, 55, 158 >>   \* 0x9e3779b97f4a7c15
SM_MIX1   == << 185, 229, 228, 28, 109, 71, 88, 191 >>   \* 0xbf58476d1ce4e5b9
SM_MIX2   == << 235, 17, 49, 19, 187, 73, 208, 148 >>    \* 0x94d049bb133111eb

splitmix64(state) ==
  Bind(AddW(state, SM_GOLDEN), LAMBDA z0 :
  Bind(MulW(XorW(z0, ShrW(z0, 30)), SM_MIX1), LAMBDA z1 :
  Bind(MulW(XorW(z1, ShrW(z1, 27)), SM_MIX2), LAMBDA z2 :
    XorW(z2, ShrW(z2, 31)))))

\* ------------------------------------------------------------------------
\* Build configuration and registries (globals.h, registries.h)
\* ------------------------------------------------------------------------

CHUNK_SIZE == 16
BIOME_SIZE == 16
BIOME_RADIUS == 8
TERRAIN_BASE_HEIGHT == 64
CAVE_BASE_DEPTH == 24

W_plains == 0
W_desert == 1
W_mangrove_swamp == 2
W_snowy_plains == 3
W_beach == 4

\* Block ids are pass-through bytes that the generator only compares for
\* equality; they are kept as names.  NO_BLOCK is the byte 0xFF.
NO_BLOCK == "0xFF"
B_air == "air"
B_bedrock == "bedrock"
B_dirt == "dirt"
B_oak_log == "oak_log"
B_oak_leaves == "oak_leaves"
B_grass_block == "grass_block"
B_dead_bush == "dead_bush"
B_cactus == "cactus"
B_lily_pad == "lily_pad"
B_moss_carpet == "moss_carpet"
B_short_grass == "short_grass"
B_mud == "mud"
B_snowy_grass_block == "snowy_grass_block"
B_sand == "sand"
B_snow == "snow"
B_diamond_ore == "diamond_ore"
B_gold_ore == "gold_ore"
B_redstone_ore == "redstone_ore"
B_iron_ore == "iron_ore"
B_copper_ore == "copper_ore"
B_coal_ore == "coal_ore"
B_lava == "lava"
B_cobblestone == "cobblestone"
B_stone == "stone"
B_sandstone == "sandstone"
B_ice == "ice"
B_water == "water"
B_torch == "torch"
B_chest == "chest"
B_diamond_block == "diamond_block"

\* #ifdef ALLOW_CHESTS in both overlay loops of worldgen.c
ALLOW_CHESTS == TRUE

\* The two builds of the program.  "host": little-endian, a shift by a count
\* outside 0..31 uses the count modulo 32.  "mac68k": big-endian, the shift
\* instruction uses the count modulo 64 and yields 0 for counts of 32..63.
Platforms == {"host", "mac68k"}

\* conversions to the fixed-width signed and unsigned types
ToShort(v) == ((v + 32768) % 65536) - 32768
ToInt8(v) == ((v + 128) % 256) - 128
ToUint8(v) == v % 256
ToUint16(v) == v % 65536

\* (uint32 h >> n) & 1 for an int count n; outside 0..31 the C shift is
\* undefined and the result is what the build's shift instruction gives
ShiftBit(h, n, pf) ==
  IF n >= 0 /\ n <= 31 THEN BitOf(h, n)
  ELSE IF pf = "host" THEN BitOf(h, n % 32)
  ELSE IF (n % 64) <= 31 THEN BitOf(h, n % 64) ELSE 0

\* ------------------------------------------------------------------------
\* worldgen.c: seeded hash, biome map, anchors and heights
\* ------------------------------------------------------------------------

\* buf holds x, z and world_seed in the host's byte order and is read back
\* as one uint64 in the host's byte order; the result is cut to uint32
getChunkHash(x, z, seed, pf) ==
  LET xs == ToLimbs(ToShort(x), 2)
      zs == ToLimbs(ToShort(z), 2)
      word == IF pf = "mac68k" THEN seed \o zs \o xs ELSE xs \o zs \o seed
  IN  SubSeq(splitmix64(word), 1, 4)

getChunkBiome(x0, z0, seed) ==
  LET x == ToShort(ToShort(x0) + BIOME_RADIUS)
      z == ToShort(ToShort(z0) + BIOME_RADIUS)
      dx == ToInt8(BIOME_RADIUS - mod_abs(x, BIOME_SIZE))
      dz == ToInt8(BIOME_RADIUS - mod_abs(z, BIOME_SIZE))
      biome_x == ToShort(div_floor(x, BIOME_SIZE))
      biome_z == ToShort(div_floor(z, BIOME_SIZE))
      index == ToUint8((biome_x % 4) + ((biome_z * 4) % 16))
  IN  IF dx * dx + dz * dz > BIOME_RADIUS * BIOME_RADIUS THEN W_beach
      ELSE Field(seed, index * 2, 2)

\* faulty variant: the desert is not raised by 4
getCornerHeight_desert_low(hash, biome) ==
  LET base == TERRAIN_BASE_HEIGHT IN
  CASE biome = W_mangrove_swamp ->
         Bind(ToUint8(base + ModW(hash, 3, 4) + ModW(ShrW(hash, 4), 3, 4)
                      + ModW(ShrW(hash, 8), 3, 4) + ModW(ShrW(hash, 12), 3, 4)),
              LAMBDA h : IF h < 64 THEN ToUint8(h - Field(hash, 24, 2)) ELSE h)
    [] biome = W_plains ->
         ToUint8(base + Field(hash, 0, 2) + Field(hash, 4, 2)
                 + Field(hash, 8, 2) + Field(hash, 12, 2))
    [] biome = W_desert ->
         ToUint8(base + Field(hash, 0, 2) + Field(hash, 4, 2))
    [] biome = W_beach ->
         ToUint8(62 - (Field(hash, 0, 2) + Field(hash, 4, 2) + Field(hash, 8, 2)))
    [] biome = W_snowy_plains ->
         ToUint8(base + Field(hash, 0, 3) + Field(hash, 4, 3))
    [] OTHER -> base

\* faulty variant: the swamp adds four 2-bit fields, as the plains do
getCornerHeight_swamp_fields(hash, biome) ==
  LET base == TERRAIN_BASE_HEIGHT IN
  CASE biome = W_mangrove_swamp ->
         Bind(ToUint8(base + Field(hash, 0, 2) + Field(hash, 4, 2)
                      + Field(hash, 8, 2) + Field(hash, 12, 2)),
              LAMBDA h : IF h < 64 THEN ToUint8(h - Field(hash, 24, 2)) ELSE h)
    [] biome = W_plains ->
         ToUint8(base + Field(hash, 0, 2) + Field(hash, 4, 2)
                 + Field(hash, 8, 2) + Field(hash, 12, 2))
    [] biome = W_desert ->
         ToUint8(base + 4 + Field(hash, 0, 2) + Field(hash, 4, 2))
    [] biome = W_beach ->
         ToUint8(62 - (Field(hash, 0, 2) + Field(hash, 4, 2) + Field(hash, 8, 2)))
    [] biome = W_snowy_plains ->
         ToUint8(base + Field(hash, 0, 3) + Field(hash, 4, 3))
    [] OTHER -> base

getCornerHeight(hash, biome) ==
  LET base == TERRAIN_BASE_HEIGHT IN
  CASE biome = W_mangrove_swamp ->
         Bind(ToUint8(base + ModW(hash, 3, 4) + ModW(ShrW(hash, 4), 3, 4)
                      + ModW(ShrW(hash, 8), 3, 4) + ModW(ShrW(hash, 12), 3, 4)),
              LAMBDA h : IF h < 64 THEN ToUint8(h - Field(hash, 24, 2)) ELSE h)
    [] biome = W_plains ->
         ToUint8(base + Field(hash, 0, 2) + Field(hash, 4, 2)
                 + Field(hash, 8, 2) + Field(hash, 12, 2))
    [] biome = W_desert ->
         ToUint8(base + 4 + Field(hash, 0, 2) + Field(hash, 4, 2))
    [] biome = W_beach ->
         ToUint8(62 - (Field(hash, 0, 2) + Field(hash, 4, 2) + Field(hash, 8, 2)))
    [] biome = W_snowy_plains ->
         ToUint8(base + Field(hash, 0, 3) + Field(hash, 4, 3))
    [] OTHER -> base

interpolate(a, b, c, d, x, z) ==
  LET top == ToUint16(a * (CHUNK_SIZE - x) + b * x)
      bottom == ToUint16(c * (CHUNK_SIZE - x) + d * x)
  IN  ToUint8(CDiv(top * (CHUNK_SIZE - z) + bottom * z, CHUNK_SIZE * CHUNK_SIZE))

\* anchors is the row-major (16/CHUNK_SIZE+1)^2 grid starting at the minichunk
getHeightAtFromAnchors(rx, rz, anchors) ==
  LET stride == CDiv(16, CHUNK_SIZE) IN
  Bind(getCornerHeight(anchors[1].hash, anchors[1].biome), LAMBDA corner :
    IF rx = 0 /\ rz = 0 /\ corner > 67 THEN ToUint8(corner - 1)
    ELSE interpolate(
           corner,
           getCornerHeight(anchors[2].hash, anchors[2].biome),
           getCornerHeight(anchors[stride + 2].hash, anchors[stride + 2].biome),
           getCornerHeight(anchors[stride + 3].hash, anchors[stride + 3].biome),
           rx, rz))

getHeightAtFromHash(rx, rz, cx, cz, chunk_hash, biome, seed, pf) ==
  Bind(getCornerHeight(chunk_hash, biome), LAMBDA corner :
    IF rx = 0 /\ rz = 0 /\ corner > 67 THEN ToUint8(corner - 1)
    ELSE interpolate(
           corner,
           getCornerHeight(getChunkHash(cx + 1, cz, seed, pf), getChunkBiome(cx + 1, cz, seed)),
           getCornerHeight(getChunkHash(cx, cz + 1, seed, pf), getChunkBiome(cx, cz + 1, seed)),
           getCornerHeight(getChunkHash(cx + 1, cz + 1, seed, pf),
                           getChunkBiome(cx + 1, cz + 1, seed)),
           rx, rz))

\* a ChunkFeature; variant is only assigned when the feature is not skipped
\* faulty variant: the margin at the high edges is one block narrower
getFeatureFromAnchor_narrow_margin(anchor, seed, pf) ==
  Bind(ToUint8(ModW(anchor.hash, CHUNK_SIZE * CHUNK_SIZE, 4)), LAMBDA feature_position :
  LET fx == feature_position % CHUNK_SIZE
      fz == feature_position \div CHUNK_SIZE
      skip_feature ==
        /\ anchor.biome # W_mangrove_swamp
        /\ \/ fx < 3 \/ fx > CHUNK_SIZE - 2
           \/ fz < 3 \/ fz > CHUNK_SIZE - 2
      wx == ToShort(fx + anchor.x * CHUNK_SIZE)
      wz == ToShort(fz + anchor.z * CHUNK_SIZE)
  IN  IF skip_feature
      THEN [x |-> fx, z |-> fz, y |-> 255, variant |-> 0]
      ELSE [x |-> wx, z |-> wz,
            y |-> ToUint8(getHeightAtFromHash(mod_abs(wx, CHUNK_SIZE), mod_abs(wz, CHUNK_SIZE),
                                             anchor.x, anchor.z, anchor.hash, anchor.biome,
                                             seed, pf) + 1),
            variant |-> ShiftBit(anchor.hash, wx + wz, pf)])

getFeatureFromAnchor(anchor, seed, pf) ==
  Bind(ToUint8(ModW(anchor.hash, CHUNK_SIZE * CHUNK_SIZE, 4)), LAMBDA feature_position :
  LET fx == feature_position % CHUNK_SIZE
      fz == feature_position \div CHUNK_SIZE
      skip_feature ==
        /\ anchor.biome # W_mangrove_swamp
        /\ \/ fx < 3 \/ fx > CHUNK_SIZE - 3
           \/ fz < 3 \/ fz > CHUNK_SIZE - 3
      wx == ToShort(fx + anchor.x * CHUNK_SIZE)
      wz == ToShort(fz + anchor.z * CHUNK_SIZE)
  IN  IF skip_feature
      THEN [x |-> fx, z |-> fz, y |-> 255, variant |-> 0]
      ELSE [x |-> wx, z |-> wz,
            y |-> ToUint8(getHeightAtFromHash(mod_abs(wx, CHUNK_SIZE), mod_abs(wz, CHUNK_SIZE),
                                             anchor.x, anchor.z, anchor.hash, anchor.biome,
                                             seed, pf) + 1),
            variant |-> ShiftBit(anchor.hash, wx + wz, pf)])

\* |a - b| stored into a uint8_t
AbsDiff8(a, b) == ToUint8(IF a > b THEN a - b ELSE b - a)

\* the ore level of a column: an 8-bit xorshift of the in-chunk coordinates
OreY(rx, rz) ==
  LET t0 == ToUint8(((rx % 16) * 16) + (rz % 16))
      t1 == XorW(<< t0 >>, << ToUint8(t0 * 16) >>)[1]
      t2 == XorW(<< t1 >>, << t1 \div 32 >>)[1]
      t3 == XorW(<< t2 >>, << ToUint8(t2 * 2) >>)[1]
  IN  t3 % 64

\* the feature layer of getTerrainAtFromCache; NO_BLOCK stands for "break"
FeatureLayer(x, y, z, anchor, feature, height) ==
  LET dx == AbsDiff8(x, feature.x)
      dz == AbsDiff8(z, feature.z)
      top == feature.y - feature.variant
  IN
  CASE anchor.biome = W_plains ->
         IF feature.y < 64 THEN NO_BLOCK
         ELSE IF x = feature.x /\ z = feature.z /\ y = feature.y - 1 THEN B_dirt
         ELSE IF x = feature.x /\ z = feature.z /\ y >= feature.y /\ y < top + 6
              THEN B_oak_log
         ELSE IF dx < 3 /\ dz < 3 /\ y > top + 2 /\ y < top + 5
              THEN (IF y = top + 4 /\ dx = 2 /\ dz = 2 THEN NO_BLOCK ELSE B_oak_leaves)
         ELSE IF dx < 2 /\ dz < 2 /\ y >= top + 5 /\ y <= top + 6
              THEN (IF y = top + 6 /\ dx = 1 /\ dz = 1 THEN NO_BLOCK ELSE B_oak_leaves)
         ELSE IF y = height THEN B_grass_block
         ELSE B_air
    [] anchor.biome = W_desert ->
         IF x # feature.x \/ z # feature.z THEN NO_BLOCK
         ELSE IF feature.variant = 0
              THEN (IF y = height + 1 THEN B_dead_bush ELSE NO_BLOCK)
         ELSE IF y > height
              THEN (IF height % 2 = 1 /\ y <= height + 3 THEN B_cactus
                    ELSE IF y <= height + 2 THEN B_cactus
                    ELSE NO_BLOCK)
         ELSE NO_BLOCK
    [] anchor.biome = W_mangrove_swamp ->
         IF x = feature.x /\ z = feature.z /\ y = 64 /\ height < 63 THEN B_lily_pad
         ELSE IF y = height + 1 /\ dx + dz < 4 THEN B_moss_carpet
         ELSE NO_BLOCK
    [] anchor.biome = W_snowy_plains ->
         IF x = feature.x /\ z = feature.z /\ y = height + 1 /\ height >= 64
         THEN B_short_grass ELSE NO_BLOCK
    [] OTHER -> NO_BLOCK

\* faulty variant: the first row of the table is not limited to y < 15
OreAt_diamond_any_depth(y, ore_probability) ==
  IF ore_probability < 10 THEN B_diamond_ore
  ELSE IF y < 15 /\ ore_probability < 12 THEN B_gold_ore
  ELSE IF y < 15 /\ ore_probability < 15 THEN B_redstone_ore
  ELSE IF y < 30 /\ ore_probability < 3 THEN B_gold_ore
  ELSE IF y < 30 /\ ore_probability < 8 THEN B_redstone_ore
  ELSE IF y < 54 /\ ore_probability < 30 THEN B_iron_ore
  ELSE IF y < 54 /\ ore_probability < 40 THEN B_copper_ore
  ELSE IF ore_probability < 60 THEN B_coal_ore
  ELSE IF y < 5 THEN B_lava
  ELSE B_cobblestone

\* the ore table of a column's ore level
OreAt(y, ore_probability) ==
  IF y < 15 /\ ore_probability < 10 THEN B_diamond_ore
  ELSE IF y < 15 /\ ore_probability < 12 THEN B_gold_ore
  ELSE IF y < 15 /\ ore_probability < 15 THEN B_redstone_ore
  ELSE IF y < 30 /\ ore_probability < 3 THEN B_gold_ore
  ELSE IF y < 30 /\ ore_probability < 8 THEN B_redstone_ore
  ELSE IF y < 54 /\ ore_probability < 30 THEN B_iron_ore
  ELSE IF y < 54 /\ ore_probability < 40 THEN B_copper_ore
  ELSE IF ore_probability < 60 THEN B_coal_ore
  ELSE IF y < 5 THEN B_lava
  ELSE B_cobblestone

\* everything of getTerrainAtFromCache below the feature layer
GroundLayer(y, rx, rz, anchor, height) ==
  LET gap == ToInt8(height - TERRAIN_BASE_HEIGHT)
      ore_y == OreY(rx, rz)
  IN
  IF height >= 63 /\ y = height THEN
       (IF anchor.biome = W_mangrove_swamp THEN B_mud
        ELSE IF anchor.biome = W_snowy_plains THEN B_snowy_grass_block
        ELSE IF anchor.biome = W_desert THEN B_sand
        ELSE IF anchor.biome = W_beach THEN B_sand
        ELSE B_grass_block)
  ELSE IF height >= 63 /\ anchor.biome = W_snowy_plains /\ y = height + 1 THEN B_snow
  ELSE IF y <= height - 4 THEN
       (IF y < CAVE_BASE_DEPTH + gap /\ y > CAVE_BASE_DEPTH - gap THEN B_air
        ELSE IF y = ore_y THEN OreAt(y, Field(anchor.hash, ore_y % 24, 8))
        ELSE B_stone)
  ELSE IF y <= height THEN
       (IF anchor.biome = W_desert THEN B_sandstone
        ELSE IF anchor.biome = W_mangrove_swamp THEN B_mud
        ELSE IF anchor.biome = W_beach /\ height > 64 THEN B_sandstone
        ELSE B_dirt)
  ELSE IF y = 63 /\ anchor.biome = W_snowy_plains THEN B_ice
  ELSE IF y < 64 THEN B_water
  ELSE B_air

getTerrainAtFromCache(x, y, z, rx, rz, anchor, feature, height) ==
  Bind(IF y >= 64 /\ y >= height /\ feature.y # 255
       THEN FeatureLayer(x, y, z, anchor, feature, height)
       ELSE NO_BLOCK,
       LAMBDA f : IF f # NO_BLOCK THEN f ELSE GroundLayer(y, rx, rz, anchor, height))

getTerrainAt(x, y, z, anchor, seed, pf) ==
  IF y > 80 THEN B_air
  ELSE LET rx0 == CRem(x, CHUNK_SIZE)
           rz0 == CRem(z, CHUNK_SIZE)
           rx == IF rx0 < 0 THEN rx0 + CHUNK_SIZE ELSE rx0
           rz == IF rz0 < 0 THEN rz0 + CHUNK_SIZE ELSE rz0
           feature == getFeatureFromAnchor(anchor, seed, pf)
           height == getHeightAtFromHash(rx, rz, anchor.x, anchor.z, anchor.hash,
                                         anchor.biome, seed, pf)
       IN  getTerrainAtFromCache(x, y, z, rx, rz, anchor, feature, height)

\* ------------------------------------------------------------------------
\* The block-change overlay (tests/test_binary_search.c).  block_changes is
\* the used prefix of the array, so block_changes_count is its length and
\* C index i is element i + 1.
\* ------------------------------------------------------------------------

MAX_BLOCK_CHANGES == 3

\* faulty variant: the order is x, then y, then z
compareBlockChangeCoords_xyz(x1, y1, z1, x2, y2, z2) ==
  IF x1 # x2 THEN (IF x1 < x2 THEN -1 ELSE 1)
  ELSE IF y1 # y2 THEN (IF y1 < y2 THEN -1 ELSE 1)
  ELSE IF z1 # z2 THEN (IF z1 < z2 THEN -1 ELSE 1)
  ELSE 0

\* the order of the array: x, then z, then y
compareBlockChangeCoords(x1, y1, z1, x2, y2, z2) ==
  IF x1 # x2 THEN (IF x1 < x2 THEN -1 ELSE 1)
  ELSE IF z1 # z2 THEN (IF z1 < z2 THEN -1 ELSE 1)
  ELSE IF y1 # y2 THEN (IF y1 < y2 THEN -1 ELSE 1)
  ELSE 0

\* the inner loop that steps over 0xFF entries
RECURSIVE SkipUnset(_, _, _)
SkipUnset(bc, actual_mid, right) ==
  IF actual_mid <= right /\ bc[actual_mid + 1].block = NO_BLOCK
  THEN SkipUnset(bc, actual_mid + 1, right)
  ELSE actual_mid

\* returns the index found (or -1) and the insertion position
RECURSIVE BinarySearchFrom(_, _, _, _, _, _)
BinarySearchFrom(bc, x, y, z, left, right) ==
  IF left > right THEN [index |-> -1, insert_pos |-> left]
  ELSE LET mid == left + CDiv(right - left, 2)
           actual_mid == SkipUnset(bc, mid, right)
       IN  IF actual_mid > right THEN BinarySearchFrom(bc, x, y, z, left, mid - 1)
           ELSE LET e == bc[actual_mid + 1]
                    cmp == compareBlockChangeCoords(x, y, z, e.x, e.y, e.z)
                IN  IF cmp = 0 THEN [index |-> actual_mid, insert_pos |-> left]
                    ELSE IF cmp < 0
                         THEN BinarySearchFrom(bc, x, y, z, left, actual_mid - 1)
                         ELSE BinarySearchFrom(bc, x, y, z, actual_mid + 1, right)

\* faulty variant: the search stops one entry short of the end of the array
binarySearchBlockChange_short(bc, x, y, z) == BinarySearchFrom(bc, x, y, z, 0, Len(bc) - 2)

binarySearchBlockChange(bc, x, y, z) == BinarySearchFrom(bc, x, y, z, 0, Len(bc) - 1)

getBlockChange_binary(bc, x, y, z) ==
  LET idx == binarySearchBlockChange(bc, x, y, z).index
  IN  IF idx >= 0 /\ bc[idx + 1].block # NO_BLOCK THEN bc[idx + 1].block ELSE NO_BLOCK

RECURSIVE LinearFrom(_, _, _, _, _)
LinearFrom(bc, x, y, z, i) ==
  IF i >= Len(bc) THEN NO_BLOCK
  ELSE IF bc[i + 1].block # NO_BLOCK /\ bc[i + 1].x = x /\ bc[i + 1].y = y /\ bc[i + 1].z = z
       THEN bc[i + 1].block
       ELSE LinearFrom(bc, x, y, z, i + 1)

getBlockChange_linear(bc, x, y, z) == LinearFrom(bc, x, y, z, 0)

\* the overlay probe of getBlockAt; its arguments are (short, uint8_t, short)
getBlockChange(bc, x, y, z) == getBlockChange_binary(bc, ToShort(x), ToUint8(y), ToShort(z))

\* faulty variant: the capacity is tested before the search
insertBlockChangeSorted_full_first(bc, x, y, z, block) ==
  LET r == binarySearchBlockChange(bc, x, y, z)
      existing == r.index
      insert_pos == r.insert_pos
  IN  IF Len(bc) >= MAX_BLOCK_CHANGES THEN [bc |-> bc, rc |-> 1]
      ELSE IF existing >= 0 THEN
        IF block = NO_BLOCK
        THEN [bc |-> SubSeq(bc, 1, existing) \o SubSeq(bc, existing + 2, Len(bc)), rc |-> 0]
        ELSE [bc |-> [bc EXCEPT ![existing + 1].block = block], rc |-> 0]
      ELSE IF block = NO_BLOCK THEN [bc |-> bc, rc |-> 0]
      ELSE [bc |-> SubSeq(bc, 1, insert_pos)
                   \o << [x |-> x, y |-> y, z |-> z, block |-> block] >>
                   \o SubSeq(bc, insert_pos + 1, Len(bc)),
            rc |-> 0]

\* faulty variant: a new entry goes to the end of the array, not to its
\* place in the order
insertBlockChangeSorted_append(bc, x, y, z, block) ==
  LET r == binarySearchBlockChange(bc, x, y, z)
      existing == r.index
  IN  IF existing >= 0 THEN
        IF block = NO_BLOCK
        THEN [bc |-> SubSeq(bc, 1, existing) \o SubSeq(bc, existing + 2, Len(bc)), rc |-> 0]
        ELSE [bc |-> [bc EXCEPT ![existing + 1].block = block], rc |-> 0]
      ELSE IF block = NO_BLOCK THEN [bc |-> bc, rc |-> 0]
      ELSE IF Len(bc) >= MAX_BLOCK_CHANGES THEN [bc |-> bc, rc |-> 1]
      ELSE [bc |-> Append(bc, [x |-> x, y |-> y, z |-> z, block |-> block]), rc |-> 0]

\* faulty variant: the array takes one entry more than its capacity
insertBlockChangeSorted_no_limit(bc, x, y, z, block) ==
  LET r == binarySearchBlockChange(bc, x, y, z)
      existing == r.index
      insert_pos == r.insert_pos
  IN  IF existing >= 0 THEN
        IF block = NO_BLOCK
        THEN [bc |-> SubSeq(bc, 1, existing) \o SubSeq(bc, existing + 2, Len(bc)), rc |-> 0]
        ELSE [bc |-> [bc EXCEPT ![existing + 1].block = block], rc |-> 0]
      ELSE IF block = NO_BLOCK THEN [bc |-> bc, rc |-> 0]
      ELSE IF Len(bc) > MAX_BLOCK_CHANGES THEN [bc |-> bc, rc |-> 1]
      ELSE [bc |-> SubSeq(bc, 1, insert_pos)
                   \o << [x |-> x, y |-> y, z |-> z, block |-> block] >>
                   \o SubSeq(bc, insert_pos + 1, Len(bc)),
            rc |-> 0]

\* faulty variant: a removal drops the entry after the one found
insertBlockChangeSorted_delete_next(bc, x, y, z, block) ==
  LET r == binarySearchBlockChange(bc, x, y, z)
      existing == r.index
      insert_pos == r.insert_pos
  IN  IF existing >= 0 THEN
        IF block = NO_BLOCK
        THEN [bc |-> SubSeq(bc, 1, existing + 1) \o SubSeq(bc, existing + 3, Len(bc)), rc |-> 0]
        ELSE [bc |-> [bc EXCEPT ![existing + 1].block = block], rc |-> 0]
      ELSE IF block = NO_BLOCK THEN [bc |-> bc, rc |-> 0]
      ELSE IF Len(bc) >= MAX_BLOCK_CHANGES THEN [bc |-> bc, rc |-> 1]
      ELSE [bc |-> SubSeq(bc, 1, insert_pos)
                   \o << [x |-> x, y |-> y, z |-> z, block |-> block] >>
                   \o SubSeq(bc, insert_pos + 1, Len(bc)),
            rc |-> 0]

\* faulty variant: a removal marks the entry 0xFF and leaves it in the array
insertBlockChangeSorted_tombstone(bc, x, y, z, block) ==
  LET r == binarySearchBlockChange(bc, x, y, z)
      existing == r.index
      insert_pos == r.insert_pos
  IN  IF existing >= 0 THEN
        IF block = NO_BLOCK
        THEN [bc |-> [bc EXCEPT ![existing + 1].block = NO_BLOCK], rc |-> 0]
        ELSE [bc |-> [bc EXCEPT ![existing + 1].block = block], rc |-> 0]
      ELSE IF block = NO_BLOCK THEN [bc |-> bc, rc |-> 0]
      ELSE IF Len(bc) >= MAX_BLOCK_CHANGES THEN [bc |-> bc, rc |-> 1]
      ELSE [bc |-> SubSeq(bc, 1, insert_pos)
                   \o << [x |-> x, y |-> y, z |-> z, block |-> block] >>
                   \o SubSeq(bc, insert_pos + 1, Len(bc)),
            rc |-> 0]

\* faulty variant: an update of an existing entry writes nothing
insertBlockChangeSorted_update_dropped(bc, x, y, z, block) ==
  LET r == binarySearchBlockChange(bc, x, y, z)
      existing == r.index
      insert_pos == r.insert_pos
  IN  IF existing >= 0 THEN
        IF block = NO_BLOCK
        THEN [bc |-> SubSeq(bc, 1, existing) \o SubSeq(bc, existing + 2, Len(bc)), rc |-> 0]
        ELSE [bc |-> bc, rc |-> 0]
      ELSE IF block = NO_BLOCK THEN [bc |-> bc, rc |-> 0]
      ELSE IF Len(bc) >= MAX_BLOCK_CHANGES THEN [bc |-> bc, rc |-> 1]
      ELSE [bc |-> SubSeq(bc, 1, insert_pos)
                   \o << [x |-> x, y |-> y, z |-> z, block |-> block] >>
                   \o SubSeq(bc, insert_pos + 1, Len(bc)),
            rc |-> 0]

\* result: the new array and the return code (0 success, 1 full)
insertBlockChangeSorted(bc, x, y, z, block) ==
  LET r == binarySearchBlockChange(bc, x, y, z)
      existing == r.index
      insert_pos == r.insert_pos
  IN  IF existing >= 0 THEN
        IF block = NO_BLOCK
        THEN [bc |-> SubSeq(bc, 1, existing) \o SubSeq(bc, existing + 2, Len(bc)), rc |-> 0]
        ELSE [bc |-> [bc EXCEPT ![existing + 1].block = block], rc |-> 0]
      ELSE IF block = NO_BLOCK THEN [bc |-> bc, rc |-> 0]
      ELSE IF Len(bc) >= MAX_BLOCK_CHANGES THEN [bc |-> bc, rc |-> 1]
      ELSE [bc |-> SubSeq(bc, 1, insert_pos)
                   \o << [x |-> x, y |-> y, z |-> z, block |-> block] >>
                   \o SubSeq(bc, insert_pos + 1, Len(bc)),
            rc |-> 0]

\* ------------------------------------------------------------------------
\* The chunk section builder (worldgen.c).  A section buffer is held at the
\* storage indices in Cells; the code computes every byte of a section
\* independently of the others, so the held bytes are exact.
\* ------------------------------------------------------------------------

\* faulty variant: the address itself, without the reversal inside each run
\* of 8
SectionIndex_unreversed(dx, dy, dz) == dx + dz * 16 + dy * 256

\* storage index of the in-section position (dx, dy, dz)
SectionIndex(dx, dy, dz) ==
  LET address == dx + dz * 16 + dy * 256
  IN  (address - (address % 8)) + (7 - (address % 8))

CellList == << SectionIndex(8, 8, 8), SectionIndex(9, 8, 8), SectionIndex(15, 6, 15),
              SectionIndex(11, 1, 7) >>
Cells == { CellList[i] : i \in 1..Len(CellList) }

\* the byte 0 of zero-initialised static storage
ZERO_BYTE == "0x00"
ZeroSection == LET zero(k) == ZERO_BYTE IN TableFrom(CellList, zero, 1)

\* the reference loop of tests/test_worldgen.c: no early exit, one test that
\* the entry lies inside the section
RECURSIVE apply_block_changes_original(_, _, _, _, _, _)
apply_block_changes_original(section, bc, i, cx, cy, cz) ==
  IF i >= Len(bc) THEN section
  ELSE LET e == bc[i + 1]
           inside == /\ e.x >= cx /\ e.x < cx + 16
                     /\ e.y >= cy /\ e.y < cy + 16
                     /\ e.z >= cz /\ e.z < cz + 16
           address == (e.x - cx) + ((e.z - cz) * 16) + ((e.y - cy) * 256)
           index == (address - (address % 8)) + (7 - (address % 8))
           next == IF e.block = NO_BLOCK THEN section
                   ELSE IF e.block = B_torch THEN section
                   ELSE IF ALLOW_CHESTS /\ e.block = B_chest THEN section
                   ELSE IF inside /\ index \in Cells
                        THEN [section EXCEPT ![index] = e.block]
                        ELSE section
       IN  apply_block_changes_original(next, bc, i + 1, cx, cy, cz)

\* faulty variant: torches are written into the section like any block
RECURSIVE ApplyBlockChanges_torch_baked(_, _, _, _, _, _)
ApplyBlockChanges_torch_baked(section, bc, i, cx, cy, cz) ==
  IF i >= Len(bc) THEN section
  ELSE LET e == bc[i + 1]
           skip == \/ e.block = NO_BLOCK
                   \/ (ALLOW_CHESTS /\ e.block = B_chest)
                   \/ e.x < cx \/ e.x >= cx + 16
                   \/ e.y < cy \/ e.y >= cy + 16
                   \/ e.z < cz \/ e.z >= cz + 16
           index == SectionIndex(e.x - cx, e.y - cy, e.z - cz)
           next == IF skip \/ index \notin Cells THEN section
                   ELSE [section EXCEPT ![index] = e.block]
       IN  ApplyBlockChanges_torch_baked(next, bc, i + 1, cx, cy, cz)

\* the overlay loop shared by the hit path and buildChunkSectionInternal
RECURSIVE ApplyBlockChanges(_, _, _, _, _, _)
ApplyBlockChanges(section, bc, i, cx, cy, cz) ==
  IF i >= Len(bc) THEN section
  ELSE LET e == bc[i + 1]
           skip == \/ e.block = NO_BLOCK
                   \/ e.block = B_torch
                   \/ (ALLOW_CHESTS /\ e.block = B_chest)
                   \/ e.x < cx \/ e.x >= cx + 16
                   \/ e.y < cy \/ e.y >= cy + 16
                   \/ e.z < cz \/ e.z >= cz + 16
           index == SectionIndex(e.x - cx, e.y - cy, e.z - cz)
           next == IF skip \/ index \notin Cells THEN section
                   ELSE [section EXCEPT ![index] = e.block]
       IN  ApplyBlockChanges(next, bc, i + 1, cx, cy, cz)

\* the anchor grid of a section, row-major over z then x
SectionAnchors(cx, cz, seed, pf) ==
  LET at(j, i) == LET ax == ToShort(CDiv(j, CHUNK_SIZE))
                      az == ToShort(CDiv(i, CHUNK_SIZE))
                  IN  [x |-> ax, z |-> az,
                       hash |-> getChunkHash(ax, az, seed, pf),
                       biome |-> getChunkBiome(ax, az, seed)]
  IN  << at(cx, cz), at(cx + CHUNK_SIZE, cz), at(cx, cz + CHUNK_SIZE),
         at(cx + CHUNK_SIZE, cz + CHUNK_SIZE) >>

\* the in-section position whose block the unrolled loop stores at
\* chunk_section[k]: k = j + i takes rx = (j % 16 + 7 - i) & 15
StoredAt(k) ==
  LET j == k - (k % 8)
  IN  [rx |-> ((j % 16) + (7 - (k % 8))) % 16,
       dy |-> j \div 256,
       rz |-> (j \div 16) % 16]

\* the generated terrain of a section before the overlay, and its biome
GenerateSection(cx, cy, cz, seed, pf) ==
  Bind(SectionAnchors(cx, cz, seed, pf), LAMBDA chunk_anchors :
  Bind(getFeatureFromAnchor(chunk_anchors[1], seed, pf), LAMBDA feature :
  LET block(k) ==
        LET y == StoredAt(k).dy + cy
            rz == StoredAt(k).rz
            rx == StoredAt(k).rx
            height == getHeightAtFromAnchors(rx % CHUNK_SIZE, rz % CHUNK_SIZE, chunk_anchors)
        IN  getTerrainAtFromCache(rx + cx, y, rz + cz, rx % CHUNK_SIZE, rz % CHUNK_SIZE,
                                  chunk_anchors[1], feature, height)
  IN  [biome |-> chunk_anchors[1].biome, data |-> TableFrom(CellList, block, 1)]))

\* ------------------------------------------------------------------------
\* The chunk section cache (worldgen.c)
\* ------------------------------------------------------------------------

CHUNK_CACHE_SIZE == 64
MAX_PROBE_DISTANCE == 32
LRU_MODULUS == 65536

HASH_PRIME_X == 73856093
HASH_PRIME_Y == 19349663
HASH_PRIME_Z == 83492791

\* the int products wrap to 32 bits before the casts to uint32_t
chunkCacheHash(cx, cy, cz) ==
  LET hx == MulW(ToLimbs(ToShort(cx), 4), ToLimbs(HASH_PRIME_X, 4))
      hy == MulW(ToLimbs(ToShort(cy), 4), ToLimbs(HASH_PRIME_Y, 4))
      hz == MulW(ToLimbs(ToShort(cz), 4), ToLimbs(HASH_PRIME_Z, 4))
  IN  ModW(XorW(XorW(hx, hy), hz), CHUNK_CACHE_SIZE, 4)

SlotMatches(slot, cx, cy, cz) == slot.cx = cx /\ slot.cy = cy /\ slot.cz = cz

RECURSIVE FindEntryFrom(_, _, _, _, _, _)
FindEntryFrom(cache, hash, cx, cy, cz, i) ==
  IF i >= MAX_PROBE_DISTANCE THEN -1
  ELSE LET idx == (hash + i) % CHUNK_CACHE_SIZE
       IN  IF cache[idx].valid = 1 /\ SlotMatches(cache[idx], cx, cy, cz) THEN idx
           ELSE FindEntryFrom(cache, hash, cx, cy, cz, i + 1)

\* faulty variant: the valid flag is not looked at
RECURSIVE FindAnyFrom(_, _, _, _, _, _)
FindAnyFrom(cache, hash, cx, cy, cz, i) ==
  IF i >= MAX_PROBE_DISTANCE THEN -1
  ELSE LET idx == (hash + i) % CHUNK_CACHE_SIZE
       IN  IF SlotMatches(cache[idx], cx, cy, cz) THEN idx
           ELSE FindAnyFrom(cache, hash, cx, cy, cz, i + 1)

findCacheEntry_any_slot(cache, cx, cy, cz) ==
  FindAnyFrom(cache, chunkCacheHash(cx, cy, cz), cx, cy, cz, 0)

\* faulty variant: the probe stops at the first invalid slot
RECURSIVE FindUntilInvalidFrom(_, _, _, _, _, _)
FindUntilInvalidFrom(cache, hash, cx, cy, cz, i) ==
  IF i >= MAX_PROBE_DISTANCE THEN -1
  ELSE LET idx == (hash + i) % CHUNK_CACHE_SIZE
       IN  IF cache[idx].valid = 0 THEN -1
           ELSE IF SlotMatches(cache[idx], cx, cy, cz) THEN idx
           ELSE FindUntilInvalidFrom(cache, hash, cx, cy, cz, i + 1)

findCacheEntry_stop_at_invalid(cache, cx, cy, cz) ==
  FindUntilInvalidFrom(cache, chunkCacheHash(cx, cy, cz), cx, cy, cz, 0)

\* faulty variant: only the home slot is looked at
findCacheEntry_home_only(cache, cx, cy, cz) ==
  Bind(chunkCacheHash(cx, cy, cz), LAMBDA hash :
    IF cache[hash].valid = 1 /\ SlotMatches(cache[hash], cx, cy, cz) THEN hash ELSE -1)

findCacheEntry(cache, cx, cy, cz) ==
  FindEntryFrom(cache, chunkCacheHash(cx, cy, cz), cx, cy, cz, 0)

\* faulty variant: the first pass runs over the whole table
RECURSIVE FirstEmptyFrom_whole_table(_, _, _)
FirstEmptyFrom_whole_table(cache, hash, i) ==
  IF i >= CHUNK_CACHE_SIZE THEN -1
  ELSE LET idx == (hash + i) % CHUNK_CACHE_SIZE
       IN  IF cache[idx].valid = 0 THEN idx
           ELSE FirstEmptyFrom_whole_table(cache, hash, i + 1)

\* first pass of findCacheSlot: the first invalid slot of the window, or -1
RECURSIVE FirstEmptyFrom(_, _, _)
FirstEmptyFrom(cache, hash, i) ==
  IF i >= MAX_PROBE_DISTANCE THEN -1
  ELSE LET idx == (hash + i) % CHUNK_CACHE_SIZE
       IN  IF cache[idx].valid = 0 THEN idx ELSE FirstEmptyFrom(cache, hash, i + 1)

\* age of a slot as the second pass computes it
SlotAge(clock, slot) == (clock - slot.lru_counter) % LRU_MODULUS

\* second pass of findCacheSlot: the running (oldest_idx, oldest_age)
RECURSIVE OldestFrom(_, _, _, _, _, _)
OldestFrom(cache, clock, hash, i, oldest_idx, oldest_age) ==
  IF i >= MAX_PROBE_DISTANCE THEN oldest_idx
  ELSE LET idx == (hash + i) % CHUNK_CACHE_SIZE
           age == SlotAge(clock, cache[idx])
       IN  IF age > oldest_age
           THEN OldestFrom(cache, clock, hash, i + 1, idx, age)
           ELSE OldestFrom(cache, clock, hash, i + 1, oldest_idx, oldest_age)

\* faulty variant: the pass over the invalid slots is left out
findCacheSlot_oldest_only(cache, clock, cx, cy, cz) ==
  Bind(chunkCacheHash(cx, cy, cz), LAMBDA hash :
    OldestFrom(cache, clock, hash, 0, hash % CHUNK_CACHE_SIZE, 0))

\* faulty variant: a direct-mapped cache, the home slot is always taken
findCacheSlot_direct_mapped(cache, clock, cx, cy, cz) ==
  chunkCacheHash(cx, cy, cz) % CHUNK_CACHE_SIZE

findCacheSlot(cache, clock, cx, cy, cz) ==
  Bind(chunkCacheHash(cx, cy, cz), LAMBDA hash :
  Bind(FirstEmptyFrom(cache, hash, 0), LAMBDA empty :
    IF empty >= 0 THEN empty
    ELSE OldestFrom(cache, clock, hash, 0, hash % CHUNK_CACHE_SIZE, 0)))

\* faulty variant: C division, which rounds negative coordinates towards zero
InvalidateOrigin_truncating(x, y, z) ==
  [cx |-> ToShort(CDiv(x, 16) * 16),
   cy |-> ToShort(CDiv(y, 16) * 16),
   cz |-> ToShort(CDiv(z, 16) * 16)]

\* the section origin invalidateChunkCache derives from a block coordinate
InvalidateOrigin(x, y, z) ==
  [cx |-> ToShort(IF x < 0 THEN CDiv(x - 15, 16) * 16 ELSE CDiv(x, 16) * 16),
   cy |-> ToShort(CDiv(y, 16) * 16),
   cz |-> ToShort(IF z < 0 THEN CDiv(z - 15, 16) * 16 ELSE CDiv(z, 16) * 16)]

\* arguments are (int16_t x, uint8_t y, int16_t z)
invalidateChunkCache(cache, x, y, z) ==
  Bind(InvalidateOrigin(ToShort(x), ToUint8(y), ToShort(z)), LAMBDA o :
  Bind(findCacheEntry(cache, o.cx, o.cy, o.cz), LAMBDA idx :
    IF idx >= 0 THEN [cache EXCEPT ![idx].valid = 0] ELSE cache))

\* faulty variant: only the first MAX_PROBE_DISTANCE slots are cleared
clearChunkCache_window(cache) ==
  [i \in DOMAIN cache |->
     IF i < MAX_PROBE_DISTANCE THEN [cache[i] EXCEPT !.valid = 0] ELSE cache[i]]

\* faulty variant: the stamps are reset, as initChunkCache does, but not valid
clearChunkCache_stamps(cache) ==
  [i \in DOMAIN cache |-> [cache[i] EXCEPT !.lru_counter = 0]]

clearChunkCache(cache) == [i \in DOMAIN cache |-> [cache[i] EXCEPT !.valid = 0]]

\* ------------------------------------------------------------------------
\* Inputs of the model
\* ------------------------------------------------------------------------

\* world_seed values, low byte first: 0x6932B5DC and 0x68C9EB9B, the low 32
\* bits of splitmix64(0xA103DE6C) and of splitmix64(0xDEADBEEF), as
\* tests/test_chunk_cache.c sets them
SEED_A == << 220, 181, 50, 105 >>
SEED_B == << 155, 235, 201, 104 >>
Seeds == { SEED_A, SEED_B }

\* section origins the callers build
SEC_O == << 0, 0, 0 >>          \* encloses (8,8,8) and (9,8,8)
SEC_N == << -16, 64, -16 >>     \* encloses (-1,70,-1)
SEC_X == << 64, 0, 0 >>         \* same home slot as SEC_O
SEC_Y == << 16, 0, 0 >>         \* a home slot inside SEC_O's window
MainSections == << SEC_O, SEC_N, SEC_X, SEC_Y >>

\* the section at the height cap over chunk (15, 97) and the one below it
SEC_T == << 240, 80, 1552 >>
SEC_U == << 240, 64, 1552 >>
TallSections == << SEC_T, SEC_U >>

\* a surface section, the section 65536 blocks east of it, whose origin is the
\* same after the cast to int16_t, and the section under level 0
SEC_S == << 0, 64, 0 >>
SEC_W == << 65536, 64, 0 >>
SEC_D == << 0, -16, 0 >>
BulkSections == << SEC_S, SEC_W, SEC_D >>

\* a view's worth of sections along z that share SEC_O's home slot
FillerCount == 31
Fillers == LET sec(i) == << 0, 0, 64 * (i + 1) >> IN LimbsFrom(FillerCount, sec, 0)

\* block coordinates the callers write, look up and invalidate
POS_A == << 8, 8, 8 >>
POS_B == << 9, 8, 8 >>
POS_N == << -1, 70, -1 >>
POS_F == << -17, 8, 40 >>
POS_S == << 8, 72, 8 >>        \* in SEC_S, at in-section position (8, 8, 8)
POS_E == << 15, 70, 15 >>      \* in SEC_S, at in-section position (15, 6, 15)
POS_T == << 251, 81, 1559 >>   \* in SEC_T, at in-section position (11, 1, 7)

\* the enclosing section origin of a block coordinate, by floor division
Enclosing(p) == << 16 * (p[1] \div 16), 16 * (p[2] \div 16), 16 * (p[3] \div 16) >>

\* ------------------------------------------------------------------------
\* buildChunkSectionInternal and buildChunkSection
\* ------------------------------------------------------------------------

\* GenerateSection tabulated for the sections and seeds of the model on one
\* platform: the generator is a pure function of seed and coordinates
TerrainKeys ==
  LET main(seed) == LET k(i) == << seed >> \o MainSections[i + 1]
                    IN  LimbsFrom(Len(MainSections), k, 0)
      fill == LET k(i) == << SEED_A >> \o Fillers[i + 1]
              IN  LimbsFrom(FillerCount, k, 0)
      tall(seed) == LET k(i) == << seed >> \o TallSections[i + 1]
                    IN  LimbsFrom(Len(TallSections), k, 0)
      bulk(seed) == LET k(i) == << seed >> \o BulkSections[i + 1]
                    IN  LimbsFrom(Len(BulkSections), k, 0)
  IN  main(SEED_A) \o main(SEED_B) \o fill \o tall(SEED_A) \o tall(SEED_B)
      \o bulk(SEED_A) \o bulk(SEED_B)

TerrainTable(pf) ==
  LET gen(k) == GenerateSection(k[2], k[3], k[4], k[1], pf)
  IN  TableFrom(TerrainKeys, gen, 1)

\* faulty variant: the overlay loop is left out
buildChunkSectionInternal_no_overlay(terrain, cx, cy, cz, bc, seed) ==
  LET g == terrain[<< seed, cx, cy, cz >>]
  IN  [biome |-> g.biome, data |-> g.data]

\* terrain is TerrainTable(platform)
buildChunkSectionInternal(terrain, cx, cy, cz, bc, seed) ==
  LET g == terrain[<< seed, cx, cy, cz >>]
  IN  [biome |-> g.biome,
       data |-> IF Len(bc) > 0 THEN ApplyBlockChanges(g.data, bc, 0, cx, cy, cz)
                ELSE g.data]

EmptySlot ==
  [cx |-> 0, cy |-> 0, cz |-> 0, biome |-> 0, valid |-> 0, lru_counter |-> 0,
   data |-> ZeroSection]

initChunkCache(cache) ==
  [i \in DOMAIN cache |-> [cache[i] EXCEPT !.valid = 0, !.lru_counter = 0]]

\* faulty variant: a hit copies the slot and does not apply the overlay
buildChunkSection_hit_unpatched(terrain, cache0, initialized, clock, bc, seed, cx, cy, cz) ==
  LET kx == ToShort(cx)
      ky == ToShort(cy)
      kz == ToShort(cz)
      tick == (clock + 1) % LRU_MODULUS
  IN
  Bind(IF initialized = 0 THEN initChunkCache(cache0) ELSE cache0, LAMBDA cache :
  Bind(findCacheEntry(cache, kx, ky, kz), LAMBDA cache_idx :
    IF cache_idx >= 0
    THEN [cache |-> [cache EXCEPT ![cache_idx].lru_counter = tick],
          clock |-> tick,
          section |-> cache[cache_idx].data,
          biome |-> cache[cache_idx].biome,
          hit |-> TRUE, idx |-> cache_idx, evicted |-> FALSE]
    ELSE Bind(buildChunkSectionInternal(terrain, cx, cy, cz, bc, seed), LAMBDA g :
         Bind(findCacheSlot(cache, clock, kx, ky, kz), LAMBDA slot :
           [cache |-> [cache EXCEPT ![slot] =
                         [cx |-> kx, cy |-> ky, cz |-> kz, biome |-> g.biome,
                          valid |-> 1, lru_counter |-> tick, data |-> g.data]],
            clock |-> tick,
            section |-> g.data,
            biome |-> g.biome,
            hit |-> FALSE, idx |-> slot, evicted |-> cache[slot].valid = 1]))))

\* faulty variant: a miss claims a slot but leaves out the copy of the section
\* into it
buildChunkSection_no_store(terrain, cache0, initialized, clock, bc, seed, cx, cy, cz) ==
  LET kx == ToShort(cx)
      ky == ToShort(cy)
      kz == ToShort(cz)
      tick == (clock + 1) % LRU_MODULUS
  IN
  Bind(IF initialized = 0 THEN initChunkCache(cache0) ELSE cache0, LAMBDA cache :
  Bind(findCacheEntry(cache, kx, ky, kz), LAMBDA cache_idx :
    IF cache_idx >= 0
    THEN [cache |-> [cache EXCEPT ![cache_idx].lru_counter = tick],
          clock |-> tick,
          section |-> IF Len(bc) > 0
                      THEN ApplyBlockChanges(cache[cache_idx].data, bc, 0, cx, cy, cz)
                      ELSE cache[cache_idx].data,
          biome |-> cache[cache_idx].biome,
          hit |-> TRUE, idx |-> cache_idx, evicted |-> FALSE]
    ELSE Bind(buildChunkSectionInternal(terrain, cx, cy, cz, bc, seed), LAMBDA g :
         Bind(findCacheSlot(cache, clock, kx, ky, kz), LAMBDA slot :
           [cache |-> [cache EXCEPT ![slot] =
                         [cx |-> kx, cy |-> ky, cz |-> kz, biome |-> g.biome,
                          valid |-> 1, lru_counter |-> tick,
                          data |-> cache[slot].data]],
            clock |-> tick,
            section |-> g.data,
            biome |-> g.biome,
            hit |-> FALSE, idx |-> slot, evicted |-> cache[slot].valid = 1]))))

\* faulty variant: a hit serves the terrain of the current seed
buildChunkSection_seed_checked(terrain, cache0, initialized, clock, bc, seed, cx, cy, cz) ==
  LET kx == ToShort(cx)
      ky == ToShort(cy)
      kz == ToShort(cz)
      tick == (clock + 1) % LRU_MODULUS
  IN
  Bind(IF initialized = 0 THEN initChunkCache(cache0) ELSE cache0, LAMBDA cache :
  Bind(findCacheEntry(cache, kx, ky, kz), LAMBDA cache_idx :
  Bind(buildChunkSectionInternal(terrain, cx, cy, cz, bc, seed), LAMBDA g :
    IF cache_idx >= 0
    THEN [cache |-> [cache EXCEPT ![cache_idx].lru_counter = tick],
          clock |-> tick,
          section |-> g.data,
          biome |-> g.biome,
          hit |-> TRUE, idx |-> cache_idx, evicted |-> FALSE]
    ELSE Bind(findCacheSlot(cache, clock, kx, ky, kz), LAMBDA slot :
           [cache |-> [cache EXCEPT ![slot] =
                         [cx |-> kx, cy |-> ky, cz |-> kz, biome |-> g.biome,
                          valid |-> 1, lru_counter |-> tick, data |-> g.data]],
            clock |-> tick,
            section |-> g.data,
            biome |-> g.biome,
            hit |-> FALSE, idx |-> slot, evicted |-> cache[slot].valid = 1]))))

\* faulty variant: a hit writes the section with the overlay applied back
\* into the slot
buildChunkSection_hit_bakes(terrain, cache0, initialized, clock, bc, seed, cx, cy, cz) ==
  LET kx == ToShort(cx)
      ky == ToShort(cy)
      kz == ToShort(cz)
      tick == (clock + 1) % LRU_MODULUS
  IN
  Bind(IF initialized = 0 THEN initChunkCache(cache0) ELSE cache0, LAMBDA cache :
  Bind(findCacheEntry(cache, kx, ky, kz), LAMBDA cache_idx :
    IF cache_idx >= 0
    THEN Bind(IF Len(bc) > 0
              THEN ApplyBlockChanges(cache[cache_idx].data, bc, 0, cx, cy, cz)
              ELSE cache[cache_idx].data, LAMBDA patched :
         [cache |-> [cache EXCEPT ![cache_idx].lru_counter = tick,
                                  ![cache_idx].data = patched],
          clock |-> tick,
          section |-> patched,
          biome |-> cache[cache_idx].biome,
          hit |-> TRUE, idx |-> cache_idx, evicted |-> FALSE])
    ELSE Bind(buildChunkSectionInternal(terrain, cx, cy, cz, bc, seed), LAMBDA g :
         Bind(findCacheSlot(cache, clock, kx, ky, kz), LAMBDA slot :
           [cache |-> [cache EXCEPT ![slot] =
                         [cx |-> kx, cy |-> ky, cz |-> kz, biome |-> g.biome,
                          valid |-> 1, lru_counter |-> tick, data |-> g.data]],
            clock |-> tick,
            section |-> g.data,
            biome |-> g.biome,
            hit |-> FALSE, idx |-> slot, evicted |-> cache[slot].valid = 1]))))

\* one call of buildChunkSection on the cache, clock and overlay; besides the
\* new cache, clock, scratch section and returned biome the result tells
\* whether the call was a hit, which slot it used and whether that slot held
\* another section
buildChunkSection(terrain, cache0, initialized, clock, bc, seed, cx, cy, cz) ==
  LET kx == ToShort(cx)
      ky == ToShort(cy)
      kz == ToShort(cz)
      tick == (clock + 1) % LRU_MODULUS
  IN
  Bind(IF initialized = 0 THEN initChunkCache(cache0) ELSE cache0, LAMBDA cache :
  Bind(findCacheEntry(cache, kx, ky, kz), LAMBDA cache_idx :
    IF cache_idx >= 0
    THEN [cache |-> [cache EXCEPT ![cache_idx].lru_counter = tick],
          clock |-> tick,
          section |-> IF Len(bc) > 0
                      THEN ApplyBlockChanges(cache[cache_idx].data, bc, 0, cx, cy, cz)
                      ELSE cache[cache_idx].data,
          biome |-> cache[cache_idx].biome,
          hit |-> TRUE, idx |-> cache_idx, evicted |-> FALSE]
    ELSE Bind(buildChunkSectionInternal(terrain, cx, cy, cz, bc, seed), LAMBDA g :
         Bind(findCacheSlot(cache, clock, kx, ky, kz), LAMBDA slot :
           [cache |-> [cache EXCEPT ![slot] =
                         [cx |-> kx, cy |-> ky, cz |-> kz, biome |-> g.biome,
                          valid |-> 1, lru_counter |-> tick, data |-> g.data]],
            clock |-> tick,
            section |-> g.data,
            biome |-> g.biome,
            hit |-> FALSE, idx |-> slot, evicted |-> cache[slot].valid = 1]))))

\* faulty variant: level 0 is bedrock too
getBlockAt_bedrock_floor(bc, seed, pf, x, y, z) ==
  IF y <= 0 THEN B_bedrock
  ELSE LET anchor_x == ToShort(div_floor(x, CHUNK_SIZE))
           anchor_z == ToShort(div_floor(z, CHUNK_SIZE))
           anchor == [x |-> anchor_x, z |-> anchor_z,
                      hash |-> getChunkHash(anchor_x, anchor_z, seed, pf),
                      biome |-> getChunkBiome(anchor_x, anchor_z, seed)]
       IN  Bind(getBlockChange(bc, x, y, z), LAMBDA block_change :
             IF block_change # NO_BLOCK THEN block_change
             ELSE getTerrainAt(x, y, z, anchor, seed, pf))

getBlockAt(bc, seed, pf, x, y, z) ==
  IF y < 0 THEN B_bedrock
  ELSE LET anchor_x == ToShort(div_floor(x, CHUNK_SIZE))
           anchor_z == ToShort(div_floor(z, CHUNK_SIZE))
           anchor == [x |-> anchor_x, z |-> anchor_z,
                      hash |-> getChunkHash(anchor_x, anchor_z, seed, pf),
                      biome |-> getChunkBiome(anchor_x, anchor_z, seed)]
       IN  Bind(getBlockChange(bc, x, y, z), LAMBDA block_change :
             IF block_change # NO_BLOCK THEN block_change
             ELSE getTerrainAt(x, y, z, anchor, seed, pf))

\* ------------------------------------------------------------------------
\* State
\* ------------------------------------------------------------------------

VARIABLES
  platform,           \* byte order and shift semantics of the build
  terrain,            \* TerrainTable(platform)
  world_seed,         \* uint32, low byte first
  block_changes,      \* the overlay, block_changes[0 .. block_changes_count-1]
  chunk_section,      \* the scratch buffer the builder fills
  chunk_cache,        \* CHUNK_CACHE_SIZE slots
  cache_lru_clock,    \* uint16
  cache_initialized,
  \* history of the run, read by the properties only
  last,               \* the last call and what it returned
  gen,                \* section -> bytes and biome of its latest miss
  touched,            \* sections whose overlay entries changed since that miss
  dirty,              \* sections written to and not invalidated since
  seed_dirty,         \* the seed changed and the cache was not cleared since
  expect,             \* coordinate -> block of its latest successful put
  resident,           \* sections inserted and not evicted, invalidated or cleared since
  gone,               \* section that left the cache -> "evict", "invalidate" or "clear"
  built,              \* sections built since the cache was last empty
  evicted_since,      \* a build has replaced a valid slot since then
  first_built,        \* section -> result of its first build since the overlay or seed changed
  first_seen,         \* coordinate -> result of its first block_at since then
  ticks,              \* number of builds so far, unwrapped
  stamp_tick,         \* slot -> value of ticks when it was last stamped
  ncalls,             \* calls so far, for the bound
  \* the packet buffer of tools.c
  packet_buffer,      \* PACKET_BUFFER_SIZE bytes
  packet_buffer_len,
  packet_buffer_fd,   \* -1 means not buffering
  written,            \* history: number of bytes given to packet_write since packet_start
  wire,               \* history: the bytes handed to send_all since packet_start
  \* one accepted stream of mac68k_net.c and its endpoint
  g_use_open_transport,
  info,               \* the stream's OTStreamInfo or MacTCPStreamInfo
  endpoint,           \* bytes waiting in the stack, pending event, bytes arrived so far
  delivered,          \* history: the bytes returned by recv without MSG_PEEK
  shown               \* history: how many bytes at the front of peek_buf a peek has returned

vars ==
  << platform, terrain, world_seed, block_changes, chunk_section, chunk_cache,
     cache_lru_clock, cache_initialized, last, gen, touched, dirty, seed_dirty,
     expect, resident, gone, built, evicted_since, first_built, first_seen,
     ticks, stamp_tick, ncalls, packet_buffer, packet_buffer_len,
     packet_buffer_fd, written, wire, g_use_open_transport, info, endpoint,
     delivered, shown >>

PACKET_BUFFER_SIZE == 2048

PEEK_BUFFER_SIZE == 16

\* a stream slot after memset
NoStream ==
  [in_use |-> 0, is_connected |-> 0, peek_buf |-> [i \in 0 .. (PEEK_BUFFER_SIZE - 1) |-> 0],
   peek_len |-> 0, orderly_disconnect_sent |-> 0, orderly_disconnect_rcvd |-> 0]

\* no connection: nothing waiting, no event pending, nothing arrived
NoEndpoint == [data |-> << >>, event |-> "none", arrived |-> 0]

\* the state of tools.c and mac68k_net.c
netvars ==
  << packet_buffer, packet_buffer_len, packet_buffer_fd, written, wire,
     g_use_open_transport, info, endpoint, delivered, shown >>

SlotIds == 0 .. (CHUNK_CACHE_SIZE - 1)

NoCall ==
  [op |-> "none", arg |-> << >>, hit |-> FALSE, biome |-> 0, rc |-> 0,
   evicted |-> FALSE, victim_lru |-> TRUE, was_resident |-> FALSE, idx |-> -1,
   gone |-> "no", prev_biome |-> -1, was_built |-> FALSE,
   block |-> NO_BLOCK, before |-> << >>]

\* the packet buffer of tools.c before any call
InitTools ==
  /\ packet_buffer = [i \in 0 .. (PACKET_BUFFER_SIZE - 1) |-> 0]
  /\ packet_buffer_len = 0
  /\ packet_buffer_fd = -1
  /\ written = 0
  /\ wire = << >>

\* tools.c and mac68k_net.c before any client is accepted
InitNet ==
  /\ InitTools
  /\ g_use_open_transport = 0
  /\ info = NoStream
  /\ endpoint = NoEndpoint
  /\ delivered = << >>
  /\ shown = 0

\* the world: overlay, scratch section and cache before any call
InitWorld(platforms, seeds) ==
  /\ platform \in platforms
  /\ terrain = TerrainTable(platform)
  /\ world_seed \in seeds
  /\ block_changes = << >>
  /\ chunk_section = ZeroSection
  /\ chunk_cache = [i \in SlotIds |-> EmptySlot]
  /\ cache_lru_clock = 0
  /\ cache_initialized = 0
  /\ last = NoCall
  /\ gen = << >>
  /\ touched = {}
  /\ dirty = {}
  /\ seed_dirty = FALSE
  /\ expect = << >>
  /\ resident = {}
  /\ gone = << >>
  /\ built = {}
  /\ evicted_since = FALSE
  /\ first_built = << >>
  /\ first_seen = << >>
  /\ ticks = 0
  /\ stamp_tick = [i \in SlotIds |-> 0]
  /\ ncalls = 0

InitWith(platforms, seeds) == InitNet /\ InitWorld(platforms, seeds)

Without(f, p) == [q \in (DOMAIN f) \ {p} |-> f[q]]

\* one more call, up to cap calls
Count(cap) == ncalls < cap /\ ncalls' = ncalls + 1

\* the slots findCacheEntry and findCacheSlot look at for a section
Window(sec) ==
  LET hash == chunkCacheHash(sec[1], sec[2], sec[3])
  IN  { (hash + k) % CHUNK_CACHE_SIZE : k \in 0 .. (MAX_PROBE_DISTANCE - 1) }

SlotKey(slot) == << slot.cx, slot.cy, slot.cz >>

\* ------------------------------------------------------------------------
\* build_section
\* ------------------------------------------------------------------------

\* one buildChunkSection call applied to the cache part m of the state,
\* together with the bookkeeping of the history
BuildStep(tbl, bc, seed, m, sec) ==
  Bind(buildChunkSection(tbl, m.cache, m.initialized, m.clock, bc, seed,
                         sec[1], sec[2], sec[3]), LAMBDA r :
  LET old == m.cache[r.idx]
      lru == \A j \in Window(sec) : m.stamp_tick[r.idx] <= m.stamp_tick[j]
  IN  [cache |-> r.cache,
       initialized |-> 1,
       clock |-> r.clock,
       section |-> r.section,
       last |-> [op |-> "build", arg |-> sec, hit |-> r.hit, biome |-> r.biome,
                 rc |-> 0, evicted |-> r.evicted,
                 victim_lru |-> (~r.evicted) \/ lru,
                 was_resident |-> sec \in m.resident, idx |-> r.idx,
                 gone |-> IF sec \in DOMAIN m.gone THEN m.gone[sec] ELSE "no",
                 prev_biome |-> IF sec \in DOMAIN m.gen THEN m.gen[sec].biome
                                ELSE -1,
                 was_built |-> sec \in m.built],
       gen |-> IF r.hit THEN m.gen
               ELSE (sec :> [data |-> r.section, biome |-> r.biome,
                             seed |-> seed, bc |-> bc]) @@ m.gen,
       touched |-> IF r.hit THEN m.touched ELSE m.touched \ {sec},
       resident |-> IF r.hit THEN m.resident
                    ELSE (IF r.evicted THEN m.resident \ {SlotKey(old)}
                          ELSE m.resident) \cup {sec},
       gone |-> IF r.hit THEN m.gone
                ELSE Without(IF r.evicted THEN (SlotKey(old) :> "evict") @@ m.gone
                             ELSE m.gone, sec),
       built |-> m.built \cup {sec},
       clean |-> m.clean,
       first_built |-> IF sec \in DOMAIN m.first_built THEN m.first_built
                       ELSE (sec :> [data |-> r.section, biome |-> r.biome,
                                     clean |-> m.clean]) @@ m.first_built,
       evicted_since |-> m.evicted_since \/ r.evicted,
       ticks |-> m.ticks + 1,
       stamp_tick |-> [m.stamp_tick EXCEPT ![r.idx] = m.ticks + 1]])

\* the caller builds the sections run[lo] .. run[hi] one after the other:
\* the first half of them, then the rest from the state the first half left
RECURSIVE BuildRun(_, _, _, _, _, _, _)
BuildRun(tbl, bc, seed, m, run, lo, hi) ==
  IF lo > hi THEN m
  ELSE IF lo = hi THEN BuildStep(tbl, bc, seed, m, run[lo])
  ELSE Bind(BuildRun(tbl, bc, seed, m, run, lo, (lo + hi) \div 2), LAMBDA half :
         BuildRun(tbl, bc, seed, half, run, ((lo + hi) \div 2) + 1, hi))

\* n further builds of the section the last call built: each is a hit on the
\* slot it used, which advances the clock and restamps that slot
RepeatHits(m, n) ==
  LET i == m.last.idx
      c == (m.clock + n) % LRU_MODULUS
  IN  [m EXCEPT !.clock = c,
                !.cache[i].lru_counter = c,
                !.ticks = m.ticks + n,
                !.stamp_tick[i] = m.ticks + n,
                !.last.hit = TRUE,
                !.last.evicted = FALSE,
                !.last.victim_lru = TRUE,
                !.last.was_resident = TRUE,
                !.last.was_built = TRUE,
                !.last.gone = "no",
                !.last.prev_biome = m.last.biome]

CacheState ==
  [cache |-> chunk_cache, initialized |-> cache_initialized,
   clock |-> cache_lru_clock, section |-> chunk_section, last |-> last,
   gen |-> gen, touched |-> touched, resident |-> resident, gone |-> gone,
   built |-> built, clean |-> (dirty = {} /\ ~seed_dirty), first_built |-> first_built,
   evicted_since |-> evicted_since, ticks |-> ticks, stamp_tick |-> stamp_tick]

SetCacheState(m) ==
  /\ chunk_cache' = m.cache
  /\ cache_initialized' = m.initialized
  /\ cache_lru_clock' = m.clock
  /\ chunk_section' = m.section
  /\ last' = m.last
  /\ gen' = m.gen
  /\ touched' = m.touched
  /\ resident' = m.resident
  /\ gone' = m.gone
  /\ built' = m.built
  /\ first_built' = m.first_built
  /\ evicted_since' = m.evicted_since
  /\ ticks' = m.ticks
  /\ stamp_tick' = m.stamp_tick

\* run built once, then its last section n more times
DoBuild(run, n) ==
  /\ UNCHANGED netvars
  /\ \E m \in { BuildRun(terrain, block_changes, world_seed, CacheState, run, 1, Len(run)) } :
       SetCacheState(IF n > 0 THEN RepeatHits(m, n) ELSE m)
  /\ UNCHANGED << platform, terrain, world_seed, block_changes, dirty,
                  seed_dirty, expect, first_seen >>

\* ------------------------------------------------------------------------
\* put_block / remove, invalidate, clear, seed change
\* ------------------------------------------------------------------------

\* put_block(p, block); block = NO_BLOCK is remove(p)
DoPut(p, block) ==
  /\ UNCHANGED netvars
  /\ \E r \in { insertBlockChangeSorted(block_changes, ToShort(p[1]), ToUint8(p[2]),
                                     ToShort(p[3]), block) } :
      /\ block_changes' = r.bc
      /\ last' = [NoCall EXCEPT !.op = "put", !.arg = p, !.rc = r.rc,
                                !.block = block, !.before = block_changes]
      /\ first_built' = IF r.bc # block_changes THEN << >> ELSE first_built
      /\ first_seen' = IF r.bc # block_changes THEN << >> ELSE first_seen
      /\ dirty' = dirty \cup {Enclosing(p)}
      /\ touched' = IF r.bc # block_changes THEN touched \cup {Enclosing(p)}
                    ELSE touched
      /\ expect' = IF block = NO_BLOCK THEN Without(expect, p)
                   ELSE IF r.rc = 0 THEN (p :> block) @@ expect
                   ELSE expect
      /\ UNCHANGED << platform, terrain, world_seed, chunk_section, chunk_cache,
                      cache_lru_clock, cache_initialized, gen, seed_dirty,
                      resident, gone, built, evicted_since, ticks, stamp_tick >>

DoInvalidate(p) ==
  /\ UNCHANGED netvars
  /\ chunk_cache' = invalidateChunkCache(chunk_cache, p[1], p[2], p[3])
  /\ last' = [NoCall EXCEPT !.op = "invalidate", !.arg = p]
  /\ dirty' = dirty \ {Enclosing(p)}
  /\ resident' = resident \ {Enclosing(p)}
  /\ gone' = IF Enclosing(p) \in resident
             THEN (Enclosing(p) :> "invalidate") @@ gone ELSE gone
  /\ UNCHANGED << platform, terrain, world_seed, block_changes, chunk_section,
                  cache_lru_clock, cache_initialized, gen, touched, seed_dirty,
                  expect, built, evicted_since, first_built, first_seen, ticks,
                  stamp_tick >>

DoClear ==
  /\ UNCHANGED netvars
  /\ chunk_cache' = clearChunkCache(chunk_cache)
  /\ last' = [NoCall EXCEPT !.op = "clear"]
  /\ seed_dirty' = FALSE
  /\ resident' = {}
  /\ gone' = [sec \in resident \cup DOMAIN gone |->
               IF sec \in resident THEN "clear" ELSE gone[sec]]
  /\ built' = {}
  /\ evicted_since' = FALSE
  /\ UNCHANGED << platform, terrain, world_seed, block_changes, chunk_section,
                  cache_lru_clock, cache_initialized, gen, touched, dirty,
                  expect, first_built, first_seen, ticks, stamp_tick >>

\* the caller assigns world_seed
DoSetSeed(seed) ==
  /\ UNCHANGED netvars
  /\ seed # world_seed
  /\ world_seed' = seed
  /\ last' = [NoCall EXCEPT !.op = "seed"]
  /\ seed_dirty' = TRUE
  /\ touched' = touched \cup DOMAIN gen
  /\ first_built' = << >>
  /\ first_seen' = << >>
  /\ UNCHANGED << platform, terrain, block_changes, chunk_section, chunk_cache,
                  cache_lru_clock, cache_initialized, gen, dirty, expect,
                  resident, gone, built, evicted_since, ticks, stamp_tick >>

\* block_at(p): the caller reads one block; first_seen is left to the caller
DoBlockAt(p) ==
  /\ UNCHANGED netvars
  /\ \E b \in { getBlockAt(block_changes, world_seed, platform, p[1], p[2], p[3]) } :
    /\ last' = [NoCall EXCEPT !.op = "block_at", !.arg = p, !.block = b]
    /\ UNCHANGED << platform, terrain, world_seed, block_changes, chunk_section,
                    chunk_cache, cache_lru_clock, cache_initialized, gen, touched,
                    dirty, seed_dirty, expect, resident, gone, built,
                    evicted_since, first_built, ticks, stamp_tick >>

\* ------------------------------------------------------------------------
\* Specification of the cache under overlay writes and seed changes
\* ------------------------------------------------------------------------

MaxCalls == 5

\* CHUNK_CACHE_SIZE is 64 on the builds without MAC68K_PLATFORM
CachePlatforms == {"host"}

Init == InitWith(CachePlatforms, Seeds)

Build == Count(MaxCalls) /\ \E sec \in {SEC_O, SEC_N} : DoBuild(<< sec >>, 0)

PutBlock ==
  /\ Count(MaxCalls)
  /\ \E p \in {POS_A, POS_N} : \E b \in {B_diamond_block, B_torch} : DoPut(p, b)

Remove == Count(MaxCalls) /\ \E p \in {POS_A, POS_N} : DoPut(p, NO_BLOCK)

Invalidate == Count(MaxCalls) /\ \E p \in {POS_A, POS_N} : DoInvalidate(p)

Clear == Count(MaxCalls) /\ DoClear

SetSeed == Count(MaxCalls) /\ \E seed \in Seeds : DoSetSeed(seed)

Next == Build \/ PutBlock \/ Remove \/ Invalidate \/ Clear \/ SetSeed

Spec == Init /\ [][Next]_vars

\* ------------------------------------------------------------------------
\* Properties of the cache under overlay writes and seed changes (Spec)
\* ------------------------------------------------------------------------

\* what the uncached builder produces for a section now
Uncached(sec) ==
  buildChunkSectionInternal(terrain, sec[1], sec[2], sec[3], block_changes, world_seed)

BuiltEqualsUncached ==
  /\ chunk_section = Uncached(last.arg).data
  /\ last.biome = Uncached(last.arg).biome

ValidSlots == { i \in SlotIds : chunk_cache[i].valid = 1 }

\* C1: when every put_block/remove has been followed by invalidate of the
\* enclosing section and every seed change by clear, build_section returns
\* the bytes and biome the uncached builder produces under the current seed
\* and overlay, on a hit as on a miss.
C1_DisciplinedBuildIsUncached ==
  (last.op = "build" /\ dirty = {} /\ ~seed_dirty) => BuiltEqualsUncached

\* a hit in a disciplined run that carries an overlay block
C1_Witness ==
  /\ last.op = "build" /\ last.hit /\ dirty = {} /\ ~seed_dirty
  /\ last.arg = SEC_N
  /\ chunk_section[SectionIndex(15, 6, 15)] = B_diamond_block

\* C3: after put_block(x,y,z,b) with b not 0xFF, torch or chest, a build of
\* the enclosing section holds b at storage index (a & ~7) | (7 - (a & 7)),
\* a = dx + 16*dz + 256*dy, on a miss and on a hit of a slot filled before
\* the put.
C3_SectionShadowing ==
  last.op = "build" =>
    \A p \in DOMAIN expect :
      (Enclosing(p) = last.arg /\ expect[p] \notin {NO_BLOCK, B_torch, B_chest}) =>
        LET a == (p[1] - last.arg[1]) + 16 * (p[3] - last.arg[3])
                 + 256 * (p[2] - last.arg[2])
        IN  chunk_section[(a - (a % 8)) + (7 - (a % 8))] = expect[p]

\* a hit on a slot that was filled before the put and not invalidated since
C3_Witness ==
  /\ last.op = "build" /\ last.hit /\ last.arg = SEC_O
  /\ POS_A \in DOMAIN expect /\ expect[POS_A] = B_diamond_block
  /\ gen[SEC_O].data[2191] # B_diamond_block
  /\ chunk_section[2191] = B_diamond_block

\* C4: with the seed fixed and no overlay entry of the section added, changed
\* or removed since the miss that generated it, a hit returns the bytes and
\* the biome that miss returned.
C4_HitEqualsMiss ==
  (last.op = "build" /\ last.hit /\ last.arg \notin touched) =>
    /\ last.arg \in DOMAIN gen
    /\ chunk_section = gen[last.arg].data
    /\ last.biome = gen[last.arg].biome

\* a hit on a section that carries an overlay block, untouched since its miss
C4_Witness ==
  /\ last.op = "build" /\ last.hit /\ last.arg = SEC_N /\ SEC_N \notin touched
  /\ chunk_section[SectionIndex(15, 6, 15)] = B_diamond_block
  /\ dirty # {}

\* the generated terrain of a valid slot's section, under the seed it was
\* generated with
SlotTerrain(i) ==
  LET key == SlotKey(chunk_cache[i])
  IN  terrain[<< gen[key].seed >> \o key].data

C7_InvalidateRemoves ==
  /\ last.op = "invalidate" =>
       \A i \in ValidSlots : SlotKey(chunk_cache[i]) # Enclosing(last.arg)
  /\ (last.op = "build" /\ last.gone = "invalidate") =>
       (~last.hit /\ BuiltEqualsUncached)

\* the rebuild of a section at negative x and z after its invalidation, with
\* an overlay block that was put after the section was first cached
C7_Witness ==
  /\ last.op = "build" /\ last.gone = "invalidate" /\ last.arg = SEC_N
  /\ chunk_section[SectionIndex(15, 6, 15)] = B_diamond_block
  /\ dirty = {}

\* C8: after clear() no slot is valid and find misses for every section, and
\* the next build of a section that was cached before the clear is a miss
\* that returns what the uncached builder produces under the current seed.
C8_ClearEmpties ==
  /\ last.op = "clear" =>
       /\ ValidSlots = {}
       /\ \A k \in 1 .. Len(MainSections) :
            findCacheEntry(chunk_cache, MainSections[k][1], MainSections[k][2],
                           MainSections[k][3]) = -1
  /\ (last.op = "build" /\ last.gone = "clear") =>
       (~last.hit /\ BuiltEqualsUncached)

\* the rebuild, under a new seed, of a section cached before the clear
C8_Witness ==
  /\ last.op = "build" /\ last.gone = "clear" /\ ~seed_dirty
  /\ last.prev_biome # -1 /\ last.prev_biome # last.biome

\* ------------------------------------------------------------------------
\* Specification of the overlay alone
\* ------------------------------------------------------------------------

OverlayPositions == {POS_A, POS_B, POS_N, POS_F}

OverlayPut ==
  /\ \E p \in OverlayPositions : \E b \in {B_diamond_block, B_torch} : DoPut(p, b)
  /\ UNCHANGED ncalls

OverlayRemove ==
  /\ \E p \in OverlayPositions : DoPut(p, NO_BLOCK)
  /\ UNCHANGED ncalls

NextOverlay == OverlayPut \/ OverlayRemove

InitOverlay == InitWith(Platforms, Seeds)

OverlaySpec == InitOverlay /\ [][NextOverlay]_vars

\* ------------------------------------------------------------------------
\* Specification of the cache when windows fill up and the clock wraps
\* ------------------------------------------------------------------------

MaxViewCalls == 4

\* as many further builds of one section as bring the clock back to the
\* stamps of a view built MAX_PROBE_DISTANCE ticks before
RepeatCount == LRU_MODULUS - MAX_PROBE_DISTANCE + 1

ViewSections == {SEC_O, SEC_X}

BuildOne == Count(MaxViewCalls) /\ \E sec \in ViewSections : DoBuild(<< sec >>, 0)

BuildView == Count(MaxViewCalls) /\ DoBuild(Fillers, 0)

BuildAgain ==
  Count(MaxViewCalls) /\ \E sec \in ViewSections : DoBuild(<< sec >>, RepeatCount)

InvalidateOne == Count(MaxViewCalls) /\ DoInvalidate(POS_A)

ClearAll == Count(MaxViewCalls) /\ DoClear

NextView == BuildOne \/ BuildView \/ BuildAgain \/ InvalidateOne \/ ClearAll

InitView == InitWith(CachePlatforms, {SEED_A})

ViewSpec == InitView /\ [][NextView]_vars

\* ------------------------------------------------------------------------
\* Properties of the overlay (OverlaySpec)
\* ------------------------------------------------------------------------

\* C2: after a successful put_block(x,y,z,b) with b not 0xFF, block_at(x,y,z)
\* returns b, whatever is put or removed at other coordinates, until the
\* next put or remove at (x,y,z).
C2_OverlayShadowing ==
  \A p \in DOMAIN expect :
    getBlockAt(block_changes, world_seed, platform, p[1], p[2], p[3]) = expect[p]

\* a full overlay in which the last entry put sorts before an older one, and
\* an overlay from which an entry sorting before an older one was removed
C2_Witness ==
  /\ POS_A \in DOMAIN expect /\ expect[POS_A] = B_torch
  /\ \/ /\ last.op = "put" /\ last.rc = 0 /\ last.arg = POS_N
        /\ Len(block_changes) = MAX_BLOCK_CHANGES
        /\ POS_N \in DOMAIN expect
     \/ /\ last.op = "put" /\ last.arg = POS_F
        /\ POS_F \notin DOMAIN expect
        /\ touched = {Enclosing(POS_A), Enclosing(POS_F)}

\* ------------------------------------------------------------------------
\* Properties of the cache when windows fill up and the clock wraps
\* (ViewSpec)
\* ------------------------------------------------------------------------

\* C6: every valid slot lies in the 32-slot probe window of its own section
\* and find returns it, invalid slots before it in the window or not; so
\* every section inserted and not evicted, invalidated or cleared since is
\* found.
C6_ValidSlotsAreFound ==
  /\ \A i \in ValidSlots :
       LET key == SlotKey(chunk_cache[i])
       IN  /\ i \in Window(key)
           /\ findCacheEntry(chunk_cache, key[1], key[2], key[3]) = i
  /\ \A sec \in resident : findCacheEntry(chunk_cache, sec[1], sec[2], sec[3]) >= 0

\* a valid slot behind an invalid slot of its own window, in a window that
\* had been full
C6_Witness ==
  /\ chunk_cache[0].valid = 0
  /\ chunk_cache[1].valid = 1
  /\ chunkCacheHash(chunk_cache[1].cx, chunk_cache[1].cy, chunk_cache[1].cz) = 0
  /\ Cardinality(ValidSlots) >= MAX_PROBE_DISTANCE - 1

\* C9: while at most MAX_PROBE_DISTANCE distinct sections have been built
\* since the cache was last empty, no build has replaced a valid slot, and
\* the build of a section built before and not invalidated since is a hit
\* that returns the bytes of its first generation.
C9_NoEvictionWithinWindow ==
  Cardinality(built) <= MAX_PROBE_DISTANCE =>
    /\ ~evicted_since
    /\ (last.op = "build" /\ last.was_built /\ last.gone # "invalidate") =>
         /\ last.hit
         /\ last.arg \in DOMAIN gen
         /\ chunk_section = gen[last.arg].data

\* MAX_PROBE_DISTANCE sections share one window and the one in its last slot
\* is built again
C9_Witness ==
  /\ Cardinality(built) = MAX_PROBE_DISTANCE
  /\ last.op = "build" /\ last.hit /\ last.was_built
  /\ last.idx = MAX_PROBE_DISTANCE - 1
  /\ Cardinality(ValidSlots) = MAX_PROBE_DISTANCE

\* C10: when a build replaces a valid slot, that slot is the one of the
\* window that was inserted or hit least recently.
C10_EvictsLeastRecent ==
  (last.op = "build" /\ last.evicted) => last.victim_lru

\* ------------------------------------------------------------------------
\* Specification of repeated reads: one section and one coordinate are read
\* again and again while the overlay changes and other sections pass
\* through the cache
\* ------------------------------------------------------------------------

MaxRepeatCalls == 6

\* the sections that fill SEC_O's window and then take its slot
Others == Fillers \o << SEC_X >>

RepeatPut == Count(MaxRepeatCalls) /\ DoPut(POS_A, B_diamond_block)

RepeatRemove == Count(MaxRepeatCalls) /\ DoPut(POS_A, NO_BLOCK)

RepeatInvalidate == Count(MaxRepeatCalls) /\ DoInvalidate(POS_A)

RepeatBuild == Count(MaxRepeatCalls) /\ DoBuild(<< SEC_O >>, 0)

RepeatOthers == Count(MaxRepeatCalls) /\ DoBuild(Others, 0)

RepeatBlockAt ==
  /\ Count(MaxRepeatCalls)
  /\ \E p \in {POS_A, POS_B} :
       /\ DoBlockAt(p)
       /\ first_seen' = IF p \in DOMAIN first_seen THEN first_seen
                        ELSE (p :> last'.block) @@ first_seen

NextRepeat ==
  \/ RepeatPut \/ RepeatRemove \/ RepeatInvalidate
  \/ RepeatBuild \/ RepeatOthers \/ RepeatBlockAt

InitRepeat == InitWith(CachePlatforms, {SEED_A})

RepeatSpec == InitRepeat /\ [][NextRepeat]_vars

\* ------------------------------------------------------------------------
\* Properties of repeated reads (RepeatSpec)
\* ------------------------------------------------------------------------

\* a block_at returns what the first block_at of the coordinate returned
\* since the overlay or the seed last changed
BlockAtRepeats ==
  last.op = "block_at" => last.block = first_seen[last.arg]

\* a build returns the bytes and biome of the first build of the section
\* since the overlay or the seed last changed
BuildRepeats ==
  /\ chunk_section = first_built[last.arg].data
  /\ last.biome = first_built[last.arg].biome

POS_U == << 8, 9, 8 >>
POS_Z == << 8, 4, 9 >>

LookupPositions == {POS_A, POS_U, POS_Z, POS_N}

\* coordinates read but never written: the bottom levels of column (0,0), a
\* level above the height cap, and levels 256 above and below POS_A
POS_BOTTOM == << 0, 0, 0 >>
POS_BELOW == << 0, -1, 0 >>
POS_HIGH == << 0, 200, 0 >>
POS_A_UP == << 8, 264, 8 >>
POS_A_DOWN == << 8, -248, 8 >>

QueryCoords == LookupPositions \cup {POS_BOTTOM, POS_BELOW, POS_HIGH, POS_A_UP, POS_A_DOWN}

LookupPut ==
  /\ \E p \in LookupPositions : \E b \in {B_diamond_block, B_torch} : DoPut(p, b)
  /\ UNCHANGED ncalls

LookupRemove ==
  /\ \E p \in LookupPositions : DoPut(p, NO_BLOCK)
  /\ UNCHANGED ncalls

LookupBlockAt ==
  /\ \E p \in QueryCoords : DoBlockAt(p)
  /\ UNCHANGED << ncalls, first_seen >>

NextLookup == LookupPut \/ LookupRemove \/ LookupBlockAt

InitLookup == InitWith(Platforms, Seeds)

LookupSpec == InitLookup /\ [][NextLookup]_vars

\* ------------------------------------------------------------------------
\* Properties of the overlay and of lookups (LookupSpec)
\* ------------------------------------------------------------------------

\* the order the claims speak of: x, then z, then y
CoordBefore(a, b) ==
  \/ a.x < b.x
  \/ a.x = b.x /\ a.z < b.z
  \/ a.x = b.x /\ a.z = b.z /\ a.y < b.y

At(e, p) == e.x = p[1] /\ e.y = p[2] /\ e.z = p[3]

HasEntry(bc, p) == \E i \in 1..Len(bc) : At(bc[i], p)

\* C12: the overlay entries are strictly increasing in (x, z, y): no two
\* entries share a coordinate, and no entry holds the 0xFF marker.
C12_OverlaySorted ==
  \A i \in 1..Len(block_changes) :
    /\ block_changes[i].block # NO_BLOCK
    /\ i < Len(block_changes) => CoordBefore(block_changes[i], block_changes[i + 1])

\* a put into the middle of the order: POS_U between POS_A (same x and z,
\* lower y) and POS_Z (larger z, lower y)
C12_Witness ==
  /\ last.op = "put" /\ last.arg = POS_U /\ last.rc = 0
  /\ Len(last.before) = 2 /\ Len(block_changes) = 3
  /\ At(block_changes[1], POS_A) /\ At(block_changes[2], POS_U)
  /\ At(block_changes[3], POS_Z)

\* C13: a put of a block at a coordinate that has no entry, when the overlay
\* holds MAX_BLOCK_CHANGES entries, returns 1 and leaves the overlay as it was.
C13_FullRejects ==
  ( /\ last.op = "put" /\ last.block # NO_BLOCK
    /\ Len(last.before) = MAX_BLOCK_CHANGES
    /\ ~HasEntry(last.before, last.arg) )
  => (last.rc = 1 /\ block_changes = last.before)

C13_Witness ==
  /\ last.op = "put" /\ last.block = B_torch /\ last.arg = POS_N
  /\ Len(last.before) = MAX_BLOCK_CHANGES /\ ~HasEntry(last.before, POS_N)
  /\ last.rc = 1 /\ Len(block_changes) = MAX_BLOCK_CHANGES

\* C14: after remove(x,y,z) the overlay lookup at (x,y,z) finds nothing
\* (0xFF) and block_at(x,y,z) is the block synthesized from the seed.
C14_RemoveRestores ==
  (last.op = "put" /\ last.block = NO_BLOCK)
  => /\ getBlockChange(block_changes, last.arg[1], last.arg[2], last.arg[3]) = NO_BLOCK
     /\ getBlockAt(block_changes, world_seed, platform,
                   last.arg[1], last.arg[2], last.arg[3])
        = getBlockAt(<< >>, world_seed, platform,
                     last.arg[1], last.arg[2], last.arg[3])

\* the first of three entries is removed and the other two stay
C14_Witness ==
  /\ last.op = "put" /\ last.block = NO_BLOCK /\ last.arg = POS_A
  /\ HasEntry(last.before, POS_A) /\ Len(last.before) = 3
  /\ Len(block_changes) = 2
  /\ getBlockChange(block_changes, 8, 8, 8) = NO_BLOCK

\* C15: remove succeeds always; it takes out the entry at the coordinate and
\* no other, keeping the order of the rest, and changes nothing when the
\* coordinate has no entry.
C15_RemoveExact ==
  (last.op = "put" /\ last.block = NO_BLOCK)
  => /\ last.rc = 0
     /\ LET Other(e) == ~At(e, last.arg)
        IN  block_changes = SelectSeq(last.before, Other)
     /\ HasEntry(last.before, last.arg) => Len(block_changes) = Len(last.before) - 1
     /\ ~HasEntry(last.before, last.arg) => block_changes = last.before

\* the middle one of three entries is removed
C15_Witness ==
  /\ last.op = "put" /\ last.block = NO_BLOCK /\ last.arg = POS_U
  /\ Len(last.before) = 3 /\ At(last.before[2], POS_U)
  /\ Len(block_changes) = 2
  /\ At(block_changes[1], POS_A) /\ At(block_changes[2], POS_Z)

\* C16: a put of a block at a coordinate that has an entry succeeds, writes
\* the block into that entry, and leaves the count and every other entry as
\* they were; this holds on a full overlay too.
C16_UpdateInPlace ==
  ( /\ last.op = "put" /\ last.block # NO_BLOCK
    /\ HasEntry(last.before, last.arg) )
  => /\ last.rc = 0
     /\ Len(block_changes) = Len(last.before)
     /\ \A i \in 1..Len(last.before) :
          block_changes[i] = IF At(last.before[i], last.arg)
                             THEN [last.before[i] EXCEPT !.block = last.block]
                             ELSE last.before[i]
     /\ getBlockChange(block_changes, last.arg[1], last.arg[2], last.arg[3]) = last.block

\* the middle entry of a full overlay goes from diamond block to torch
C16_Witness ==
  /\ last.op = "put" /\ last.block = B_torch /\ last.arg = POS_U
  /\ Len(last.before) = MAX_BLOCK_CHANGES
  /\ At(last.before[2], POS_U) /\ last.before[2].block = B_diamond_block
  /\ block_changes[2].block = B_torch /\ last.rc = 0

\* C17: on every overlay the program reaches, the binary search and the
\* linear scan give the same answer for every coordinate looked up.
C17_BinaryMatchesLinear ==
  \A q \in QueryCoords :
    getBlockChange_binary(block_changes, ToShort(q[1]), ToUint8(q[2]), ToShort(q[3]))
    = getBlockChange_linear(block_changes, ToShort(q[1]), ToUint8(q[2]), ToShort(q[3]))

\* a full overlay: the last entry is found, an absent coordinate is not
C17_Witness ==
  /\ Len(block_changes) = MAX_BLOCK_CHANGES
  /\ At(block_changes[3], POS_Z)
  /\ getBlockChange_binary(block_changes, 8, 4, 9) = block_changes[3].block
  /\ getBlockChange_linear(block_changes, 0, 0, 0) = NO_BLOCK
  /\ getBlockChange_binary(block_changes, 0, 0, 0) = NO_BLOCK

\* C18: block_at is total over the whole coordinate range: bedrock below
\* level 0; otherwise the overlay's block when the coordinate has an entry;
\* otherwise the synthesized block, which is air above level 80.
C18_BlockAtTotal ==
  last.op = "block_at"
  => IF last.arg[2] < 0 THEN last.block = B_bedrock
     ELSE IF HasEntry(block_changes, last.arg)
          THEN \E i \in 1..Len(block_changes) :
                 At(block_changes[i], last.arg) /\ last.block = block_changes[i].block
          ELSE /\ last.block = getBlockAt(<< >>, world_seed, platform,
                                          last.arg[1], last.arg[2], last.arg[3])
               /\ last.arg[2] > 80 => last.block = B_air

\* C19: with an empty overlay block_at(0,-1,0) is bedrock, and block_at(0,0,0)
\* is a block of the ore table (an ore or lava), never bedrock.
C19_BottomOfWorld ==
  (last.op = "block_at" /\ block_changes = << >>)
  => /\ last.arg = POS_BELOW => last.block = B_bedrock
     /\ last.arg = POS_BOTTOM =>
          last.block \in {B_diamond_ore, B_gold_ore, B_redstone_ore, B_iron_ore,
                          B_copper_ore, B_coal_ore, B_lava}

\* the claim as stated: both reads give bedrock
C19_BottomIsBedrock ==
  (last.op = "block_at" /\ block_changes = << >>)
  => /\ last.arg = POS_BELOW => last.block = B_bedrock
     /\ last.arg = POS_BOTTOM => last.block = B_bedrock

C19_Witness ==
  /\ last.op = "block_at" /\ last.arg = POS_BOTTOM /\ block_changes = << >>
  /\ last.block = B_lava

\* ------------------------------------------------------------------------
\* Specification of builds at the height cap
\* ------------------------------------------------------------------------

MaxTallCalls == 4

TallBuild == Count(MaxTallCalls) /\ \E sec \in {SEC_T, SEC_U} : DoBuild(<< sec >>, 0)

TallPut == Count(MaxTallCalls) /\ DoPut(POS_T, B_diamond_block)

TallRemove == Count(MaxTallCalls) /\ DoPut(POS_T, NO_BLOCK)

TallInvalidate == Count(MaxTallCalls) /\ DoInvalidate(POS_T)

NextTall == TallBuild \/ TallPut \/ TallRemove \/ TallInvalidate

InitTall == InitWith(CachePlatforms, Seeds)

TallSpec == InitTall /\ [][NextTall]_vars

\* world y of the block held at storage index k of the section at level cy
CellY(cy, k) == cy + ((k - (k % 8)) + (7 - (k % 8))) \div 256

\* C20: a section returned by build_section with no overlay entry inside it
\* holds air at every block whose world y is above 80.
C20_AirAboveCap ==
  ( /\ last.op = "build"
    /\ \A i \in 1..Len(block_changes) :
         Enclosing(<< block_changes[i].x, block_changes[i].y, block_changes[i].z >>)
         # last.arg )
  => \A k \in Cells : CellY(last.arg[2], k) > 80 => chunk_section[k] = B_air

\* ------------------------------------------------------------------------
\* Specification of builds at the edges of the coordinate range
\* ------------------------------------------------------------------------

MaxBulkCalls == 4

BulkBuild ==
  /\ Count(MaxBulkCalls)
  /\ \E sec \in {SEC_S, SEC_W, SEC_D} : DoBuild(<< sec >>, 0)

BulkPut ==
  /\ Count(MaxBulkCalls)
  /\ \E p \in {POS_S, POS_E} : \E b \in {B_diamond_block, B_torch, B_chest} : DoPut(p, b)

BulkRemove == Count(MaxBulkCalls) /\ \E p \in {POS_S, POS_E} : DoPut(p, NO_BLOCK)

NextBulk == BulkBuild \/ BulkPut \/ BulkRemove

InitBulk == InitWith(CachePlatforms, Seeds)

BulkSpec == InitBulk /\ [][NextBulk]_vars

\* C21: a section returned by build_section for cy < 0 holds bedrock at every
\* block whose world y is below 0.
C21_BedrockBelowZero ==
  (last.op = "build" /\ last.arg[2] < 0)
  => \A k \in Cells : CellY(last.arg[2], k) < 0 => chunk_section[k] = B_bedrock

\* ------------------------------------------------------------------------
\* Specification of the pure functions: one application to one input
\* ------------------------------------------------------------------------

InSection == 0 .. 15

\* chunk columns around the origin, two biome cells to each side
ChunkRange == -24 .. 24

\* the storage index of one in-section position
IndexOf ==
  /\ last.op = "none"
  /\ \E dx \in InSection : \E dy \in InSection : \E dz \in InSection :
       last' = [NoCall EXCEPT !.op = "index", !.arg = << dx, dy, dz >>,
                              !.idx = SectionIndex(dx, dy, dz)]
  /\ UNCHANGED << platform, terrain, world_seed, block_changes, chunk_section,
                  chunk_cache, cache_lru_clock, cache_initialized, gen, touched,
                  dirty, seed_dirty, expect, resident, gone, built,
                  evicted_since, first_built, first_seen, ticks, stamp_tick,
                  ncalls >>
  /\ UNCHANGED netvars

\* the biome of one chunk column
BiomeOf ==
  /\ last.op = "none"
  /\ \E x \in ChunkRange : \E z \in ChunkRange :
       last' = [NoCall EXCEPT !.op = "biome", !.arg = << x, z >>,
                              !.biome = getChunkBiome(x, z, world_seed)]
  /\ UNCHANGED << platform, terrain, world_seed, block_changes, chunk_section,
                  chunk_cache, cache_lru_clock, cache_initialized, gen, touched,
                  dirty, seed_dirty, expect, resident, gone, built,
                  evicted_since, first_built, first_seen, ticks, stamp_tick,
                  ncalls >>
  /\ UNCHANGED netvars

\* 32-bit hashes, low byte first: every value of bits 0-2, 4-6, 8-9 and
\* 12-13, with the bytes above them all zero, all one, or in between
HeightHashes ==
  { << f0 + 16 * f1, f2 + 16 * f3, b2, b3 >> :
      f0 \in 0 .. 7, f1 \in 0 .. 7, f2 \in 0 .. 3, f3 \in 0 .. 3,
      b2 \in {0, 255}, b3 \in {0, 3, 255} }

Biomes == {W_plains, W_desert, W_mangrove_swamp, W_snowy_plains, W_beach}

\* the corner height of one hash in one biome
HeightOf ==
  /\ last.op = "none"
  /\ \E hash \in HeightHashes : \E biome \in Biomes :
       last' = [NoCall EXCEPT !.op = "height", !.arg = << hash, biome >>,
                              !.rc = getCornerHeight(hash, biome)]
  /\ UNCHANGED << platform, terrain, world_seed, block_changes, chunk_section,
                  chunk_cache, cache_lru_clock, cache_initialized, gen, touched,
                  dirty, seed_dirty, expect, resident, gone, built,
                  evicted_since, first_built, first_seen, ticks, stamp_tick,
                  ncalls >>
  /\ UNCHANGED netvars

\* anchor hashes with every feature position in the low byte, the bytes
\* above it all zero or all one
FeatureHashes == { << p, b, b, b >> : p \in 0 .. 255, b \in {0, 255} }

\* chunk columns of the anchors
FeatureChunks == { << 0, 0 >>, << -3, 5 >> }

\* the feature of one chunk anchor
FeatureOf ==
  /\ last.op = "none"
  /\ \E hash \in FeatureHashes : \E biome \in Biomes : \E c \in FeatureChunks :
       last' = [op |-> "feature", arg |-> << hash, biome, c[1], c[2] >>,
                feature |-> getFeatureFromAnchor(
                              [x |-> c[1], z |-> c[2], hash |-> hash, biome |-> biome],
                              world_seed, platform)]
  /\ UNCHANGED << platform, terrain, world_seed, block_changes, chunk_section,
                  chunk_cache, cache_lru_clock, cache_initialized, gen, touched,
                  dirty, seed_dirty, expect, resident, gone, built,
                  evicted_since, first_built, first_seen, ticks, stamp_tick,
                  ncalls >>
  /\ UNCHANGED netvars

\* anchor hashes of the ore columns: the ore probability takes values on
\* both sides of every threshold of the table
OreHashes == { << 0, 0, 0, 0 >>, << 255, 255, 255, 255 >>, << 11, 13, 35, 50 >>,
               << 5, 35, 50, 13 >> }

\* biome and surface height of the ore columns
OreSurfaces == { << W_beach, 53 >>, << W_plains, 70 >>, << W_snowy_plains, 78 >> }

\* the highest level queried
OreTop == 66

\* the block at one level of one column, the column's feature at (5, 5)
TerrainOf ==
  /\ last.op = "none"
  /\ \E rx \in 0 .. 15 : \E rz \in 0 .. 15 : \E y \in 0 .. OreTop :
     \E hash \in OreHashes : \E s \in OreSurfaces :
       last' = [op |-> "terrain", arg |-> << rx, rz, y, hash, s[1], s[2] >>,
                rc |-> getTerrainAtFromCache(
                         rx, y, rz, rx, rz,
                         [x |-> 0, z |-> 0, hash |-> hash, biome |-> s[1]],
                         [x |-> 5, z |-> 5, y |-> s[2] + 1, variant |-> 0], s[2])]
  /\ UNCHANGED << platform, terrain, world_seed, block_changes, chunk_section,
                  chunk_cache, cache_lru_clock, cache_initialized, gen, touched,
                  dirty, seed_dirty, expect, resident, gone, built,
                  evicted_since, first_built, first_seen, ticks, stamp_tick,
                  ncalls >>
  /\ UNCHANGED netvars

NextPure == IndexOf \/ BiomeOf \/ HeightOf \/ FeatureOf \/ TerrainOf

InitPure == InitWith(CachePlatforms, Seeds)

PureSpec == InitPure /\ [][NextPure]_vars

\* C22: for every in-section (dx,dy,dz) the overlay's storage index is
\* (a & ~7) | (7 - (a & 7)), a = dx + 16*dz + 256*dy: it lies in 0..4095,
\* keeps the upper 9 bits of a, reverses the low 3, and is the index at which
\* the builder's loop stores the block of (dx,dy,dz); the index and the
\* builder's position are inverse to each other, so the mapping is a
\* permutation and every byte is written once.
C22_InterleavedIndex ==
  last.op = "index" =>
    LET a == last.arg[1] + 16 * last.arg[3] + 256 * last.arg[2]
        at == StoredAt(last.idx)
    IN  /\ last.idx \in 0 .. 4095
        /\ last.idx \div 8 = a \div 8
        /\ last.idx % 8 = 7 - (a % 8)
        /\ << at.rx, at.dy, at.rz >> = last.arg
        /\ SectionIndex(StoredAt(a).rx, StoredAt(a).dy, StoredAt(a).rz) = a

\* position (8,8,8), address 2184, is stored at index 2191
C22_Witness ==
  /\ last.op = "index" /\ last.arg = << 8, 8, 8 >> /\ last.idx = 2191
  /\ StoredAt(2191).rx = 8

\* C24: two chunk columns that touch, along an edge or a corner, and lie in
\* different biome cells are never both something other than beach.
C24_IslandsRinged ==
  last.op = "biome" =>
    \A ex \in -1 .. 1 : \A ez \in -1 .. 1 :
      LET x == last.arg[1]
          z == last.arg[2]
          cell(c) == (c + BIOME_RADIUS) \div BIOME_SIZE
      IN  (cell(x + ex) # cell(x) \/ cell(z + ez) # cell(z))
          => \/ last.biome = W_beach
             \/ getChunkBiome(x + ex, z + ez, world_seed) = W_beach

\* the section the overlay was applied to by the last build: the slot's bytes
\* on a hit, the generated terrain on a miss
OverlayBase ==
  IF last.hit THEN chunk_cache[last.idx].data
  ELSE terrain[<< world_seed >> \o last.arg].data

\* the entry lies inside the section at sec and is of a kind that is baked in
BakedInto(e, sec) ==
  /\ e.block \notin {NO_BLOCK, B_torch, B_chest}
  /\ e.x >= sec[1] /\ e.x < sec[1] + 16
  /\ e.y >= sec[2] /\ e.y < sec[2] + 16
  /\ e.z >= sec[3] /\ e.z < sec[3] + 16

\* the interleaved index of the entry in the section at sec
EntryIndex(e, sec) ==
  LET a == (e.x - sec[1]) + 16 * (e.z - sec[3]) + 256 * (e.y - sec[2])
  IN  (a - (a % 8)) + (7 - (a % 8))

\* C23: the overlay applied by a build, on a hit as on a miss, changes
\* exactly the bytes at the interleaved indices of the entries that lie
\* inside the section and are none of 0xFF, torch, chest, and leaves every
\* other byte as it was; the result is the one the reference loop gives.
C23_OverlayFrame ==
  last.op = "build" =>
    /\ \A k \in Cells :
         LET hits == { i \in 1 .. Len(block_changes) :
                         /\ BakedInto(block_changes[i], last.arg)
                         /\ EntryIndex(block_changes[i], last.arg) = k }
         IN  IF hits = {} THEN chunk_section[k] = OverlayBase[k]
             ELSE \A i \in hits : chunk_section[k] = block_changes[i].block
    /\ chunk_section = apply_block_changes_original(OverlayBase, block_changes, 0,
                                                    last.arg[1], last.arg[2], last.arg[3])

\* a hit on a slot filled before a diamond block and a torch were put into
\* the section: the diamond block is in the section, the torch is not
C23_Witness ==
  /\ last.op = "build" /\ last.hit /\ last.arg = SEC_S
  /\ Len(block_changes) = 2
  /\ getBlockChange(block_changes, 8, 72, 8) = B_diamond_block
  /\ getBlockChange(block_changes, 15, 70, 15) = B_torch
  /\ OverlayBase[2191] # B_diamond_block
  /\ chunk_section[2191] = B_diamond_block
  /\ chunk_section[1784] = OverlayBase[1784]

\* C28: section coordinates outside the int16_t range wrap consistently: a
\* build served as a hit returns the bytes a fresh generation for the same
\* coordinates gives, never those of another section whose origin is the same
\* after truncation to 16 bits.
C28_HitIsOwnSection ==
  (last.op = "build" /\ last.hit /\ dirty = {} /\ ~seed_dirty)
  => chunk_section = Uncached(last.arg).data

\* C29: for a section generated by the bulk path and an overlay without
\* torch and chest entries, the byte at the interleaved index of every
\* in-section position with world y in 0..80 is what block_at returns for
\* that coordinate.
C29_BulkMatchesSingle ==
  ( /\ last.op = "build" /\ ~last.hit
    /\ \A i \in 1 .. Len(block_changes) :
         block_changes[i].block \notin {B_torch, B_chest} )
  => \A k \in Cells :
       LET x == last.arg[1] + StoredAt(k).rx
           y == last.arg[2] + StoredAt(k).dy
           z == last.arg[3] + StoredAt(k).rz
       IN  (y >= 0 /\ y <= 80)
           => chunk_section[k] = getBlockAt(block_changes, world_seed, platform, x, y, z)

\* ------------------------------------------------------------------------
\* Specification of the cache slot by slot: every step is one call, made on
\* a cache whose window of home slot 0 is one insert from full and whose
\* clock is two ticks from its wrap
\* ------------------------------------------------------------------------

MaxSlotCalls == 4

\* the state before the first call
EmptyState ==
  [cache |-> [i \in SlotIds |-> EmptySlot], initialized |-> 0, clock |-> 0,
   section |-> ZeroSection, last |-> NoCall, gen |-> << >>, touched |-> {},
   resident |-> {}, gone |-> << >>, built |-> {}, clean |-> TRUE,
   first_built |-> << >>, evicted_since |-> FALSE, ticks |-> 0,
   stamp_tick |-> [i \in SlotIds |-> 0]]

\* sections of the window of home slot 0 built while the cache warms up, and
\* the builds of SEC_X that bring the clock to LRU_MODULUS - 2 with them
WarmFillers == MAX_PROBE_DISTANCE - 2
WarmHits == LRU_MODULUS - MAX_PROBE_DISTANCE - 1

\* SEC_X built, built WarmHits times more, then the first WarmFillers fillers
Warmed(tbl, seed) ==
  Bind(BuildStep(tbl, << >>, seed, EmptyState, SEC_X), LAMBDA first :
    BuildRun(tbl, << >>, seed, RepeatHits(first, WarmHits), Fillers, 1, WarmFillers))

\* sections of home slot 0 in and out of the warm cache, and SEC_Y, whose
\* window starts inside that of the others
SlotSections == {SEC_O, SEC_X, SEC_Y, Fillers[1], Fillers[FillerCount]}

\* block coordinates in SEC_O, in SEC_X, in Fillers[1] and in SEC_N, which is
\* never built
SlotCoords == {POS_A, << 70, 3, 5 >>, << 5, 3, 70 >>, POS_N}

SlotBuild == Count(MaxSlotCalls) /\ \E sec \in SlotSections : DoBuild(<< sec >>, 0)

SlotInvalidate == Count(MaxSlotCalls) /\ \E p \in SlotCoords : DoInvalidate(p)

SlotClear == Count(MaxSlotCalls) /\ DoClear

SlotPut ==
  Count(MaxSlotCalls) /\ \E b \in {B_diamond_block, NO_BLOCK} : DoPut(POS_A, b)

NextSlot == SlotBuild \/ SlotInvalidate \/ SlotClear \/ SlotPut

InitSlot ==
  /\ InitNet
  /\ platform \in CachePlatforms
  /\ terrain = TerrainTable(platform)
  /\ world_seed \in {SEED_A}
  /\ block_changes = << >>
  /\ dirty = {}
  /\ seed_dirty = FALSE
  /\ expect = << >>
  /\ first_seen = << >>
  /\ ncalls = 0
  /\ \E m \in { Warmed(terrain, world_seed) } :
       /\ chunk_section = m.section
       /\ chunk_cache = m.cache
       /\ cache_lru_clock = m.clock
       /\ cache_initialized = m.initialized
       /\ last = m.last
       /\ gen = m.gen
       /\ touched = m.touched
       /\ resident = m.resident
       /\ gone = m.gone
       /\ built = m.built
       /\ evicted_since = m.evicted_since
       /\ first_built = m.first_built
       /\ ticks = m.ticks
       /\ stamp_tick = m.stamp_tick

SlotSpec == InitSlot /\ [][NextSlot]_vars

\* ------------------------------------------------------------------------
\* Properties of the cache slot by slot (SlotSpec)
\* ------------------------------------------------------------------------

\* C25: a cache slot changes only along these transitions: Empty to Filled
\* (an insert into an invalid slot), Filled to Filled with a newer stamp and
\* the same key, biome and data (a hit; the new stamp is the new value of the
\* clock and differs from the old stamp), Filled to Empty (an invalidate of a
\* coordinate inside the slot's section, or a clear), and Filled to Filled
\* with another key (an eviction, only by an insert whose window holds no
\* invalid slot); no other call changes a slot.
C25_SlotTransitions ==
  [][ \A i \in SlotIds :
        chunk_cache'[i] # chunk_cache[i] =>
          LET old == chunk_cache[i]
              new == chunk_cache'[i]
          IN  \/ /\ old.valid = 0 /\ new.valid = 1
                 /\ last'.op = "build" /\ ~last'.hit /\ last'.idx = i
                 /\ SlotKey(new) = last'.arg
                 /\ new.lru_counter = cache_lru_clock'
              \/ /\ old.valid = 1
                 /\ last'.op = "build" /\ last'.hit /\ last'.idx = i
                 /\ SlotKey(old) = last'.arg
                 /\ new = [old EXCEPT !.lru_counter = cache_lru_clock']
                 /\ new.lru_counter # old.lru_counter
                 /\ cache_lru_clock' = (cache_lru_clock + 1) % LRU_MODULUS
              \/ /\ old.valid = 1
                 /\ new = [old EXCEPT !.valid = 0]
                 /\ \/ last'.op = "invalidate" /\ Enclosing(last'.arg) = SlotKey(old)
                    \/ last'.op = "clear"
              \/ /\ old.valid = 1 /\ new.valid = 1
                 /\ SlotKey(new) # SlotKey(old)
                 /\ last'.op = "build" /\ ~last'.hit /\ last'.idx = i
                 /\ SlotKey(new) = last'.arg
                 /\ new.lru_counter = cache_lru_clock'
                 /\ \A j \in Window(last'.arg) : chunk_cache[j].valid = 1 ]_vars

\* a hit after the clock has wrapped, in a run in which a slot was filled, one
\* was evicted and one was invalidated
C25_Witness ==
  /\ last.op = "build" /\ last.hit
  /\ cache_lru_clock < MAX_PROBE_DISTANCE
  /\ \E i \in ValidSlots : chunk_cache[i].lru_counter > cache_lru_clock
  /\ \E sec \in DOMAIN gone : gone[sec] = "evict"
  /\ \E sec \in DOMAIN gone : gone[sec] = "invalidate"
  /\ Cardinality(ValidSlots) = MAX_PROBE_DISTANCE - 1

\* the cache with every slot outside the window of sec replaced by a slot
\* that holds sec, with the given valid flag and stamp
Blinded(cache, sec, valid, stamp) ==
  [i \in SlotIds |->
     IF i \in Window(sec) THEN cache[i]
     ELSE [cx |-> sec[1], cy |-> sec[2], cz |-> sec[3], biome |-> 0,
           valid |-> valid, lru_counter |-> stamp, data |-> ZeroSection]]

\* the slots a step changes
ChangedSlots == { i \in SlotIds : chunk_cache'[i] # chunk_cache[i] }

\* what a build or an invalidate of section sec reads and writes lies in the
\* window of sec
InWindowOnly(sec) ==
  /\ chunkCacheHash(sec[1], sec[2], sec[3]) \in SlotIds
  /\ ChangedSlots \subseteq Window(sec)
  /\ findCacheEntry(chunk_cache, sec[1], sec[2], sec[3]) \in Window(sec) \cup {-1}
  /\ findCacheEntry(Blinded(chunk_cache, sec, 1, cache_lru_clock), sec[1], sec[2], sec[3])
       = findCacheEntry(chunk_cache, sec[1], sec[2], sec[3])
  /\ findCacheSlot(chunk_cache, cache_lru_clock, sec[1], sec[2], sec[3]) \in Window(sec)
  /\ findCacheSlot(Blinded(chunk_cache, sec, 0, (cache_lru_clock + 1) % LRU_MODULUS),
                   cache_lru_clock, sec[1], sec[2], sec[3])
       = findCacheSlot(chunk_cache, cache_lru_clock, sec[1], sec[2], sec[3])

\* C26: a build (find, and insert on a miss) and an invalidate of key K read
\* and write only the slots (h(K) + i) mod N with 0 <= i < 32, where h(K) is
\* in 0 .. N-1: the slots outside K's window are unchanged and their contents
\* do not influence what is found or chosen; an insert changes exactly one
\* slot, a hit changes only the slot it found, and an invalidate clears the
\* slot it found or nothing.
C26_WindowFrame ==
  [][ /\ last'.op = "build" =>
           /\ InWindowOnly(last'.arg)
           /\ ChangedSlots \subseteq {last'.idx}
           /\ ~last'.hit => ChangedSlots = {last'.idx}
      /\ last'.op = "invalidate" =>
           /\ InWindowOnly(Enclosing(last'.arg))
           /\ Cardinality(ChangedSlots) <= 1
           /\ \A i \in ChangedSlots :
                /\ chunk_cache'[i] = [chunk_cache[i] EXCEPT !.valid = 0]
                /\ i = findCacheEntry(chunk_cache, Enclosing(last'.arg)[1],
                                      Enclosing(last'.arg)[2], Enclosing(last'.arg)[3])
    ]_vars

\* the section inserted over a valid slot of its full window, while the
\* slots outside the window are invalid, has been invalidated again
C26_Witness ==
  /\ last.op = "invalidate" /\ last.arg = POS_A
  /\ SEC_O \in DOMAIN gone /\ gone[SEC_O] = "invalidate"
  /\ SEC_X \in DOMAIN gone /\ gone[SEC_X] = "evict"
  /\ chunk_cache[0].valid = 0 /\ SlotKey(chunk_cache[0]) = SEC_O
  /\ ValidSlots = Window(SEC_O) \ {0}

\* C27: in every reachable state of the cache no two valid slots hold the
\* same (cx, cy, cz); so after an invalidate, which clears the first matching
\* slot of the window, no valid slot holds the section of its coordinate.
C27_KeysUnique ==
  /\ \A i, j \in ValidSlots :
       SlotKey(chunk_cache[i]) = SlotKey(chunk_cache[j]) => i = j
  /\ last.op = "invalidate" =>
       \A i \in ValidSlots : SlotKey(chunk_cache[i]) # Enclosing(last.arg)

\* a section held behind another slot of its full window has been
\* invalidated: its slot keeps the key and is invalid, the others are valid
C27_Witness ==
  /\ last.op = "invalidate" /\ Enclosing(last.arg) = Fillers[1]
  /\ chunk_cache[1].valid = 0 /\ SlotKey(chunk_cache[1]) = Fillers[1]
  /\ ValidSlots = Window(SEC_O) \ {1}

\* C30: a build served as a cache hit changes no slot's key, validity, biome
\* or data: it changes the stamp of the slot it found, which becomes the new
\* value of the clock, and nothing else of the cache; the overlay is applied
\* to the scratch section, a copy of the slot's data. Every hit and every
\* insert advances the clock by exactly one, modulo 2^16; invalidate, clear
\* and the overlay writes leave it unchanged.
C30_HitFrame ==
  [][ /\ (last'.op = "build" /\ last'.hit) =>
           /\ \A i \in SlotIds :
                chunk_cache'[i] =
                  IF i = last'.idx
                  THEN [chunk_cache[i] EXCEPT !.lru_counter = cache_lru_clock']
                  ELSE chunk_cache[i]
           /\ chunk_section' =
                apply_block_changes_original(chunk_cache[last'.idx].data, block_changes,
                                             0, last'.arg[1], last'.arg[2], last'.arg[3])
           /\ block_changes' = block_changes
      /\ last'.op = "build" =>
           /\ cache_lru_clock' = (cache_lru_clock + 1) % LRU_MODULUS
           /\ chunk_cache'[last'.idx].lru_counter = cache_lru_clock'
      /\ last'.op \in {"invalidate", "clear", "put"} =>
           cache_lru_clock' = cache_lru_clock ]_vars

\* a hit that brings the clock to 0 and returns a diamond block the slot
\* does not hold
C30_Witness ==
  /\ last.op = "build" /\ last.hit /\ last.arg = SEC_O
  /\ cache_lru_clock = 0
  /\ chunk_cache[last.idx].lru_counter = 0
  /\ chunk_section[SectionIndex(8, 8, 8)] = B_diamond_block
  /\ chunk_cache[last.idx].data[SectionIndex(8, 8, 8)] # B_diamond_block

\* ------------------------------------------------------------------------
\* The cache and the seed (Spec)
\* ------------------------------------------------------------------------

\* the bytes the miss that filled the slot of section sec stored: the terrain
\* of the seed of that moment with the overlay of that moment applied
StoredBytes(sec) ==
  apply_block_changes_original(terrain[<< gen[sec].seed >> \o sec].data, gen[sec].bc,
                               0, sec[1], sec[2], sec[3])

\* C31: the cache key does not include the seed. A build of a section that
\* was inserted and not invalidated or cleared since is a hit whatever the
\* seed is now, and a hit returns the bytes and the biome its slot stored
\* under the seed of the insertion, with the current overlay on top.
C31_HitIgnoresSeed ==
  /\ (last.op = "build" /\ last.was_resident) => last.hit
  /\ (last.op = "build" /\ last.hit) =>
       /\ last.arg \in DOMAIN gen
       /\ chunk_cache[last.idx].data = StoredBytes(last.arg)
       /\ chunk_section =
            apply_block_changes_original(StoredBytes(last.arg), block_changes, 0,
                                         last.arg[1], last.arg[2], last.arg[3])
       /\ last.biome = terrain[<< gen[last.arg].seed >> \o last.arg].biome

\* a hit after a seed change that returns the biome and a byte of the old
\* seed, which the builder would not produce under the current one
C31_Witness ==
  /\ last.op = "build" /\ last.hit /\ seed_dirty
  /\ gen[last.arg].seed # world_seed
  /\ last.biome # Uncached(last.arg).biome
  /\ chunk_section # Uncached(last.arg).data

\* ------------------------------------------------------------------------
\* The full overlay (LookupSpec)
\* ------------------------------------------------------------------------

\* C32: a put at a coordinate that has an entry succeeds, also when the
\* overlay holds MAX_BLOCK_CHANGES entries: a block replaces the entry's block
\* and 0xFF takes the entry out. A put fails only when it would add an
\* entry to a full overlay, and the overlay never holds more than
\* MAX_BLOCK_CHANGES entries.
C32_FullOverlayUpdates ==
  /\ Len(block_changes) <= MAX_BLOCK_CHANGES
  /\ (last.op = "put" /\ HasEntry(last.before, last.arg)) =>
       /\ last.rc = 0
       /\ IF last.block = NO_BLOCK
          THEN ~HasEntry(block_changes, last.arg)
               /\ Len(block_changes) = Len(last.before) - 1
          ELSE /\ Len(block_changes) = Len(last.before)
               /\ \E i \in 1 .. Len(block_changes) :
                    At(block_changes[i], last.arg) /\ block_changes[i].block = last.block
  /\ (last.op = "put" /\ last.rc # 0) =>
       /\ last.rc = 1
       /\ last.block # NO_BLOCK
       /\ ~HasEntry(last.before, last.arg)
       /\ Len(last.before) = MAX_BLOCK_CHANGES
       /\ block_changes = last.before

\* the entry in the middle of a full overlay is taken out
C32_Witness ==
  /\ last.op = "put" /\ last.block = NO_BLOCK /\ last.rc = 0
  /\ Len(last.before) = MAX_BLOCK_CHANGES
  /\ At(last.before[2], last.arg)
  /\ Len(block_changes) = MAX_BLOCK_CHANGES - 1

\* ------------------------------------------------------------------------
\* Corner heights (PureSpec)
\* ------------------------------------------------------------------------

\* the low half of the number a hash stands for, which holds the bits the
\* heights are made of, and w bits of a number from bit lo on
HashLow(hash) == hash[1] + 256 * hash[2]

Bits(v, lo, w) == (v \div (2 ^ lo)) % (2 ^ w)

\* C33: the corner height is 64 plus four 2-bit fields of the hash in the
\* plains (64..76), 68 plus two 2-bit fields in the desert (68..74, above sea
\* level 64), 62 minus three 2-bit fields on the beach (53..62, at or below
\* sea level) and 64 plus two 3-bit fields in the snowy plains (64..78): the
\* byte returned is that sum, with no wrap-around.
C33_HeightRanges ==
  last.op = "height" =>
    LET v == HashLow(last.arg[1])
        biome == last.arg[2]
        h == last.rc
    IN  /\ biome = W_plains =>
             /\ h = 64 + Bits(v, 0, 2) + Bits(v, 4, 2) + Bits(v, 8, 2) + Bits(v, 12, 2)
             /\ h \in 64 .. 76
        /\ biome = W_desert =>
             /\ h = 68 + Bits(v, 0, 2) + Bits(v, 4, 2)
             /\ h \in 68 .. 74
        /\ biome = W_beach =>
             /\ h = 62 - (Bits(v, 0, 2) + Bits(v, 4, 2) + Bits(v, 8, 2))
             /\ h \in 53 .. 62
        /\ biome = W_snowy_plains =>
             /\ h = 64 + Bits(v, 0, 3) + Bits(v, 4, 3)
             /\ h \in 64 .. 78
        /\ h \in 0 .. 255

\* the highest corner there is: snowy plains, both 3-bit fields 7, under a
\* hash whose other bits are all one
C33_Witness ==
  /\ last.op = "height" /\ last.arg[2] = W_snowy_plains
  /\ last.arg[1] = << 119, 51, 255, 255 >>
  /\ last.rc = 78

\* the high half of the number a hash stands for
HashHigh(hash) == hash[3] + 256 * hash[4]

\* (hash >> s) % 3 for s = 0, 4, 8, 12, from the two halves of the hash
ShiftedMod3(hash, s) ==
  (((HashLow(hash) \div (2 ^ s)) % 3)
   + (((65536 \div (2 ^ s)) % 3) * (HashHigh(hash) % 3))) % 3

InOwnColumn(x, z) ==
  /\ x \in (16 * last.arg[3]) .. (16 * last.arg[3] + 15)
  /\ z \in (16 * last.arg[4]) .. (16 * last.arg[4] + 15)

\* C35: in every biome other than the mangrove swamp a feature whose in-chunk
\* position (fx, fz) is less than 3 blocks from a chunk boundary (fx < 3,
\* 16 - fx < 3, and the same for fz) is suppressed, y = 0xFF; so every oak log
\* and oak leaves block of a plains tree lies in the chunk column of its
\* feature.
C35_FeatureMargin ==
  last.op = "feature" =>
    LET fx == last.arg[1][1] % 16
        fz == last.arg[1][1] \div 16
        f == last.feature
        anchor == [x |-> last.arg[3], z |-> last.arg[4], hash |-> last.arg[1],
                   biome |-> last.arg[2]]
    IN  /\ ( /\ last.arg[2] # W_mangrove_swamp
             /\ (fx < 3 \/ 16 - fx < 3 \/ fz < 3 \/ 16 - fz < 3) ) => f.y = 255
        /\ (last.arg[2] = W_plains /\ f.y # 255) =>
             \A x \in (f.x - 3) .. (f.x + 3) : \A z \in (f.z - 3) .. (f.z + 3) :
               \A y \in (f.y - 1) .. (f.y + 7) :
                 FeatureLayer(x, y, z, anchor, f, f.y - 1) \in {B_oak_log, B_oak_leaves}
                   => InOwnColumn(x, z)

\* a plains tree at in-chunk position (13, 3): its leaves reach the last
\* column of the chunk on one side and column 1 on the other
C35_Witness ==
  /\ last.op = "feature" /\ last.arg[2] = W_plains
  /\ last.arg[1][1] = 13 + 16 * 3
  /\ last.feature.y # 255
  /\ LET f == last.feature
         anchor == [x |-> last.arg[3], z |-> last.arg[4], hash |-> last.arg[1],
                    biome |-> last.arg[2]]
     IN  /\ f.x = 16 * last.arg[3] + 13
         /\ FeatureLayer(f.x + 2, f.y - f.variant + 3, f.z - 2, anchor, f, f.y - 1)
              = B_oak_leaves

\* ------------------------------------------------------------------------
\* Caves and ore (PureSpec)
\* ------------------------------------------------------------------------

\* the blocks the ore level of a column can hold
OrePathBlocks == {B_diamond_ore, B_gold_ore, B_redstone_ore, B_iron_ore,
                  B_copper_ore, B_coal_ore, B_lava, B_cobblestone}

\* the rows "y < r[1] and p < r[2] give r[3]" of the ore table, top to bottom
OreRows ==
  << << 15, 10, B_diamond_ore >>, << 15, 12, B_gold_ore >>,
     << 15, 15, B_redstone_ore >>, << 30, 3, B_gold_ore >>,
     << 30, 8, B_redstone_ore >>, << 54, 30, B_iron_ore >>,
     << 54, 40, B_copper_ore >>, << 64, 60, B_coal_ore >>,
     << 5, 256, B_lava >>, << 64, 256, B_cobblestone >> >>

\* the block of the first row that matches
FirstMatch(y, p) ==
  LET hits == { i \in 1 .. Len(OreRows) : y < OreRows[i][1] /\ p < OreRows[i][2] }
  IN  OreRows[CHOOSE i \in hits : \A j \in hits : i <= j][3]

\* C36: a block of the ore path is produced only at the column's one ore
\* level y = ore_y, which lies in 0..63 and depends on (rx, rz) alone, only
\* at y <= h - 4 and outside the cave band, and it is the block of the first
\* matching row of the ore table: diamond only below 15, gold and redstone
\* only below 30, iron and copper only below 54, lava only below 5.
C36_OreLevels ==
  last.op = "terrain" =>
    LET rx == last.arg[1]
        rz == last.arg[2]
        y == last.arg[3]
        h == last.arg[6]
        gap == h - 64
        band == y < 24 + gap /\ y > 24 - gap
        p == Field(last.arg[4], OreY(rx, rz) % 24, 8)
    IN  /\ OreY(rx, rz) \in 0 .. 63
        /\ last.rc \in OrePathBlocks => y = OreY(rx, rz) /\ y <= h - 4 /\ ~band
        /\ (y = OreY(rx, rz) /\ y <= h - 4 /\ ~band) => last.rc = FirstMatch(y, p)
        /\ last.rc = B_diamond_ore => y < 15
        /\ last.rc \in {B_gold_ore, B_redstone_ore} => y < 30
        /\ last.rc \in {B_iron_ore, B_copper_ore} => y < 54
        /\ last.rc = B_lava => y < 5

\* a diamond ore at the ore level of a column, below level 15
C36_Witness ==
  /\ last.op = "terrain" /\ last.rc = B_diamond_ore
  /\ last.arg[3] = OreY(last.arg[1], last.arg[2]) /\ last.arg[3] < 15
  /\ Field(last.arg[4], last.arg[3] % 24, 8) < 10

\* ------------------------------------------------------------------------
\* Packet buffering (tools.c)
\* ------------------------------------------------------------------------

\* calls of one run
MaxPacketCalls == 5

\* the client sockets
ClientFds == {3, 4}

\* lengths of the writes: one byte, part of the buffer, all but one byte,
\* the whole buffer
WriteLens == {1, 1000, PACKET_BUFFER_SIZE - 1, PACKET_BUFFER_SIZE}

\* the k-th byte given to packet_write since packet_start
ByteOf(k) == k % 251

\* the globals of the packet buffer and the bytes handed to send_all
PacketState ==
  [buf |-> packet_buffer, len |-> packet_buffer_len, fd |-> packet_buffer_fd,
   sent |-> wire]

SetPacketState(s) ==
  /\ packet_buffer' = s.buf
  /\ packet_buffer_len' = s.len
  /\ packet_buffer_fd' = s.fd
  /\ wire' = s.sent

packet_start(s, client_fd) == [s EXCEPT !.fd = client_fd, !.len = 0]

\* faulty variant: the length is not reset after the send
packet_flush_continue_keeps_len(s) ==
  IF s.fd = -1 \/ s.len = 0 THEN s
  ELSE [s EXCEPT !.sent = @ \o [i \in 1 .. s.len |-> s.buf[i - 1]]]

\* send_all is handed packet_buffer[0 .. packet_buffer_len-1]
packet_flush_continue(s) ==
  IF s.fd = -1 \/ s.len = 0 THEN s
  ELSE [s EXCEPT !.sent = @ \o [i \in 1 .. s.len |-> s.buf[i - 1]], !.len = 0]

\* memcpy of buf to packet_buffer + packet_buffer_len; the bytes that would
\* fall behind the array are left out
packet_write(s, buf) ==
  Bind(IF s.len + Len(buf) > PACKET_BUFFER_SIZE THEN packet_flush_continue(s) ELSE s,
       LAMBDA t :
         [t EXCEPT !.buf = [i \in 0 .. (PACKET_BUFFER_SIZE - 1) |->
                              IF i >= t.len /\ i < t.len + Len(buf)
                              THEN buf[i - t.len + 1] ELSE t.buf[i]],
                   !.len = t.len + Len(buf)])

packet_flush(s) == [packet_flush_continue(s) EXCEPT !.fd = -1]

packet_end(s) == [s EXCEPT !.len = 0, !.fd = -1]

\* what a call leaves for the properties: the call, its argument, whether
\* buffering was active and how many bytes had been handed to send_all
PacketCall(op, arg) ==
  [op |-> op, arg |-> arg, was_buffering |-> packet_buffer_fd # -1,
   nwire |-> Len(wire)]

PacketFrame ==
  UNCHANGED << platform, terrain, world_seed, block_changes, chunk_section,
               chunk_cache, cache_lru_clock, cache_initialized, gen, touched,
               dirty, seed_dirty, expect, resident, gone, built, evicted_since,
               first_built, first_seen, ticks, stamp_tick,
               g_use_open_transport, info, endpoint, delivered, shown >>

\* a new run of buffered writes: the histories start again
PacketStart ==
  /\ Count(MaxPacketCalls)
  /\ \E client_fd \in ClientFds :
       /\ packet_buffer' = packet_start(PacketState, client_fd).buf
       /\ packet_buffer_len' = packet_start(PacketState, client_fd).len
       /\ packet_buffer_fd' = packet_start(PacketState, client_fd).fd
       /\ last' = PacketCall("packet_start", client_fd)
  /\ written' = 0
  /\ wire' = << >>
  /\ PacketFrame

\* a write of the writers of tools.c, which call packet_write while
\* packet_buffer_fd is their client
PacketWrite ==
  /\ Count(MaxPacketCalls)
  /\ packet_buffer_fd # -1
  /\ \E len \in WriteLens :
       /\ SetPacketState(packet_write(PacketState,
                                      [i \in 1 .. len |-> ByteOf(written + i)]))
       /\ written' = written + len
       /\ last' = PacketCall("packet_write", len)
  /\ PacketFrame

PacketFlushContinue ==
  /\ Count(MaxPacketCalls)
  /\ SetPacketState(packet_flush_continue(PacketState))
  /\ last' = PacketCall("packet_flush_continue", 0)
  /\ UNCHANGED written
  /\ PacketFrame

PacketFlush ==
  /\ Count(MaxPacketCalls)
  /\ SetPacketState(packet_flush(PacketState))
  /\ last' = PacketCall("packet_flush", 0)
  /\ UNCHANGED written
  /\ PacketFrame

PacketEnd ==
  /\ Count(MaxPacketCalls)
  /\ SetPacketState(packet_end(PacketState))
  /\ last' = PacketCall("packet_end", 0)
  /\ UNCHANGED written
  /\ PacketFrame

NextPacket ==
  PacketStart \/ PacketWrite \/ PacketFlushContinue \/ PacketFlush \/ PacketEnd

InitPacket == InitWith(Platforms, {SEED_A})

PacketSpec == InitPacket /\ [][NextPacket]_vars

\* the bytes given to packet_write since packet_start, in write order
WrittenBytes == [k \in 1 .. written |-> ByteOf(k)]

\* the bytes waiting in the buffer
Buffered == [i \in 1 .. packet_buffer_len |-> packet_buffer[i - 1]]

\* C37: while buffering is active packet_buffer_len stays within
\* PACKET_BUFFER_SIZE and the bytes handed to send_all followed by the bytes
\* waiting in the buffer are the written bytes in write order; after
\* packet_flush all of them have been handed over, each once; packet_end
\* hands over nothing, empties the buffer and stops buffering.
C37_PacketBuffer ==
  /\ packet_buffer_len \in 0 .. PACKET_BUFFER_SIZE
  /\ packet_buffer_fd # -1 => wire \o Buffered = WrittenBytes
  /\ (last.op = "packet_flush" /\ last.was_buffering) =>
       /\ wire = WrittenBytes
       /\ packet_buffer_fd = -1
       /\ packet_buffer_len = 0
  /\ last.op = "packet_end" =>
       /\ Len(wire) = last.nwire
       /\ packet_buffer_fd = -1
       /\ packet_buffer_len = 0

\* a flush after writes that overflowed the buffer: part of the bytes went
\* out in an automatic flush, the rest in the final one
C37_Witness ==
  /\ last.op = "packet_flush" /\ last.was_buffering
  /\ written > PACKET_BUFFER_SIZE
  /\ last.nwire > 0 /\ last.nwire < written
  /\ Len(wire) = written

\* ------------------------------------------------------------------------
\* recv with MSG_PEEK (mac68k_net.c)
\* ------------------------------------------------------------------------

\* recv calls of one run
MaxNetCalls == 3

\* bytes that arrive in one run
MaxNetBytes == 20

\* sizes of the segments that arrive
SegmentLens == {3, 17}

\* the len argument of recv: tools.c peeks 1 byte (recv_all) and 32 bytes
\* (drain_stale_movement_packets), more than the peek buffer holds
RecvLens == {1, 3, 32}

\* the k-th byte the peer sends
NetByte(k) == k % 251

Min(a, b) == IF a < b THEN a ELSE b

\* what recv gives back: the stream and the endpoint after the call, the
\* return value, the bytes copied to buf and errno
Recv(st, ep, rc, out, err) ==
  [info |-> st, ep |-> ep, rc |-> rc, out |-> out, errno |-> err]

\* the first n bytes of the peek buffer
PeekFront(st, n) == [i \in 1 .. n |-> st.peek_buf[i - 1]]

\* bytes stored at peek_buf + peek_len
PeekAppend(st, bytes) ==
  [st EXCEPT !.peek_buf = [i \in 0 .. (PEEK_BUFFER_SIZE - 1) |->
                             IF i >= st.peek_len /\ i < st.peek_len + Len(bytes)
                             THEN bytes[i - st.peek_len + 1] ELSE st.peek_buf[i]],
             !.peek_len = st.peek_len + Len(bytes)]

\* the non-peek path while the peek buffer holds bytes: copy, memmove, count
PeekTake(st, ep, len) ==
  Bind(Min(st.peek_len, len), LAMBDA copy_len :
    Recv([st EXCEPT !.peek_buf = [i \in 0 .. (PEEK_BUFFER_SIZE - 1) |->
                                    IF i < st.peek_len - copy_len
                                    THEN st.peek_buf[i + copy_len] ELSE st.peek_buf[i]],
                    !.peek_len = st.peek_len - copy_len],
         ep, copy_len, PeekFront(st, copy_len), "none"))

\* OTRcv of at most n bytes; look: the call answers a pending event with
\* kOTLookErr
OTRcv(ep, n, look) ==
  IF ep.event # "none" /\ look
  THEN [err |-> "kOTLookErr", bytes |-> << >>, ep |-> ep]
  ELSE IF Len(ep.data) = 0
  THEN [err |-> "kOTNoDataErr", bytes |-> << >>, ep |-> ep]
  ELSE [err |-> "noErr", bytes |-> SubSeq(ep.data, 1, Min(n, Len(ep.data))),
        ep |-> [ep EXCEPT !.data = SubSeq(ep.data, Min(n, Len(ep.data)) + 1,
                                          Len(ep.data))]]

\* RecvData of at most n bytes; look: the call reports a closing connection
\* while bytes are still waiting
RecvData(ep, n, look) ==
  IF ep.event # "none" /\ (look \/ Len(ep.data) = 0)
  THEN [err |-> IF ep.event = "T_ORDREL" THEN "connectionClosing"
                ELSE "connectionTerminated",
        bytes |-> << >>, ep |-> ep]
  ELSE IF Len(ep.data) = 0
  THEN [err |-> "commandTimeout", bytes |-> << >>, ep |-> ep]
  ELSE [err |-> "noErr", bytes |-> SubSeq(ep.data, 1, Min(n, Len(ep.data))),
        ep |-> [ep EXCEPT !.data = SubSeq(ep.data, Min(n, Len(ep.data)) + 1,
                                          Len(ep.data))]]

ot_handle_disconnect_event(st, event) ==
  CASE event = "T_DISCONNECT" ->
         [info |-> [st EXCEPT !.is_connected = 0], handled |-> 1]
    [] event = "T_ORDREL" ->
         [info |-> [st EXCEPT !.orderly_disconnect_rcvd = 1,
                              !.orderly_disconnect_sent = 1,
                              !.is_connected = 0],
          handled |-> 1]
    [] OTHER -> [info |-> st, handled |-> 0]

\* OTLook and the handler: the event is taken off the endpoint
OtDisconnected(st, ep, rc_else, err_else) ==
  Bind(ot_handle_disconnect_event(st, ep.event), LAMBDA h :
    IF h.handled = 1
    THEN Recv(h.info, [ep EXCEPT !.event = "none"], 0, << >>, "none")
    ELSE Recv(st, ep, rc_else, << >>, err_else))

\* count_ok: OTCountDataBytes answers noErr
ot_recv(st, ep, len, peek, count_ok, look) ==
  IF st.in_use = 0 THEN Recv(st, ep, -1, << >>, "EBADF")
  ELSE IF st.is_connected = 0 THEN Recv(st, ep, -1, << >>, "ENOTCONN")
  ELSE IF peek THEN
    IF st.peek_len >= len THEN Recv(st, ep, len, PeekFront(st, len), "none")
    ELSE
      Bind(IF st.peek_len < PEEK_BUFFER_SIZE /\ count_ok /\ Len(ep.data) > 0
           THEN OTRcv(ep, Min(PEEK_BUFFER_SIZE - st.peek_len, Len(ep.data)), look)
           ELSE [err |-> "skipped", bytes |-> << >>, ep |-> ep],
           LAMBDA r :
        IF r.err = "kOTLookErr" /\ ot_handle_disconnect_event(st, ep.event).handled = 1
        THEN OtDisconnected(st, ep, 0, "none")
        ELSE Bind(PeekAppend(st, r.bytes), LAMBDA t :
               IF t.peek_len > 0
               THEN Recv(t, r.ep, Min(t.peek_len, len),
                         PeekFront(t, Min(t.peek_len, len)), "none")
               ELSE Recv(t, r.ep, -1, << >>, "EAGAIN")))
  ELSE IF st.peek_len > 0 THEN PeekTake(st, ep, len)
  ELSE IF count_ok /\ Len(ep.data) = 0 THEN
    (IF ep.event \in {"T_DISCONNECT", "T_ORDREL"}
     THEN OtDisconnected(st, ep, 0, "none")
     ELSE Recv(st, ep, -1, << >>, "EAGAIN"))
  ELSE
    Bind(OTRcv(ep, len, look), LAMBDA r :
      IF r.err = "noErr" THEN Recv(st, r.ep, Len(r.bytes), r.bytes, "none")
      ELSE IF r.err = "kOTNoDataErr" THEN Recv(st, ep, -1, << >>, "EAGAIN")
      ELSE OtDisconnected(st, ep, -1, "ECONNRESET"))

mactcp_recv(st, ep, len, peek, look) ==
  IF st.in_use = 0 THEN Recv(st, ep, -1, << >>, "EBADF")
  ELSE IF st.is_connected = 0 THEN Recv(st, ep, -1, << >>, "ENOTCONN")
  ELSE IF peek THEN
    IF st.peek_len >= len THEN Recv(st, ep, len, PeekFront(st, len), "none")
    ELSE
      Bind(IF st.peek_len < PEEK_BUFFER_SIZE
           THEN RecvData(ep, PEEK_BUFFER_SIZE - st.peek_len, look)
           ELSE [err |-> "skipped", bytes |-> << >>, ep |-> ep],
           LAMBDA r :
        IF r.err \in {"connectionClosing", "connectionTerminated"}
        THEN Recv(st, ep, 0, << >>, "none")
        ELSE Bind(PeekAppend(st, r.bytes), LAMBDA t :
               IF t.peek_len > 0
               THEN Recv(t, r.ep, Min(t.peek_len, len),
                         PeekFront(t, Min(t.peek_len, len)), "none")
               ELSE Recv(t, r.ep, -1, << >>, "EAGAIN")))
  ELSE IF st.peek_len > 0 THEN PeekTake(st, ep, len)
  ELSE
    Bind(RecvData(ep, len % 65536, look), LAMBDA r :
      IF r.err = "commandTimeout" THEN Recv(st, ep, -1, << >>, "EAGAIN")
      ELSE IF r.err \in {"connectionClosing", "connectionTerminated"}
      THEN Recv(st, ep, 0, << >>, "none")
      ELSE IF Len(r.bytes) = 0 THEN Recv(st, ep, -1, << >>, "EAGAIN")
      ELSE Recv(st, r.ep, Len(r.bytes), r.bytes, "none"))

recv(use_ot, st, ep, len, peek, count_ok, look) ==
  IF use_ot = 1 THEN ot_recv(st, ep, len, peek, count_ok, look)
  ELSE mactcp_recv(st, ep, len, peek, look)

NetFrame ==
  UNCHANGED << platform, terrain, world_seed, block_changes, chunk_section,
               chunk_cache, cache_lru_clock, cache_initialized, gen, touched,
               dirty, seed_dirty, expect, resident, gone, built, evicted_since,
               first_built, first_seen, ticks, stamp_tick, packet_buffer,
               packet_buffer_len, packet_buffer_fd, written, wire,
               g_use_open_transport >>

\* the peer's next segment reaches the stack
NetArrive ==
  /\ endpoint.event = "none"
  /\ \E n \in SegmentLens :
       /\ endpoint.arrived + n <= MaxNetBytes
       /\ endpoint' = [endpoint EXCEPT
                         !.data = @ \o [k \in 1 .. n |-> NetByte(endpoint.arrived + k)],
                         !.arrived = @ + n]
  /\ UNCHANGED << info, delivered, shown, last, ncalls >>
  /\ NetFrame

\* the peer resets or closes the connection
NetDisconnect ==
  /\ endpoint.event = "none"
  /\ \E e \in {"T_DISCONNECT", "T_ORDREL"} : endpoint' = [endpoint EXCEPT !.event = e]
  /\ UNCHANGED << info, delivered, shown, last, ncalls >>
  /\ NetFrame

NetRecv ==
  /\ Count(MaxNetCalls)
  /\ \E len \in RecvLens : \E peek \in BOOLEAN : \E count_ok \in BOOLEAN :
     \E look \in BOOLEAN :
     \E r \in { recv(g_use_open_transport, info, endpoint, len, peek, count_ok, look) } :
       /\ info' = r.info
       /\ endpoint' = r.ep
       /\ delivered' = IF peek THEN delivered ELSE delivered \o r.out
       /\ shown' = IF r.rc <= 0 THEN shown
                   ELSE IF peek THEN (IF r.rc > shown THEN r.rc ELSE shown)
                   ELSE (IF r.rc > shown THEN 0 ELSE shown - r.rc)
       /\ last' = [op |-> "recv", peek |-> peek, len |-> len, rc |-> r.rc,
                   out |-> r.out, errno |-> r.errno, had |-> shown,
                   nbefore |-> Len(delivered)]
  /\ NetFrame

NextNet == NetArrive \/ NetDisconnect \/ NetRecv

\* one stream after accept, on either stack
InitStream ==
  /\ InitTools
  /\ InitWorld({"mac68k"}, {SEED_A})
  /\ g_use_open_transport \in {0, 1}
  /\ info = [NoStream EXCEPT !.in_use = 1, !.is_connected = 1]
  /\ endpoint = NoEndpoint
  /\ delivered = << >>
  /\ shown = 0

NetSpec == InitStream /\ [][NextNet]_vars

\* bytes a .. b of the peer's stream
Numbered(a, b) == [k \in 1 .. (b - a + 1) |-> NetByte(a + k - 1)]

\* the bytes held in the peek buffer
PeekBuffered == PeekFront(info, info.peek_len)

\* nothing is lost, repeated or reordered: peek_len stays in range; the bytes
\* delivered, the bytes in the peek buffer and the bytes waiting in the stack
\* are the peer's stream; each call returns the bytes that follow the ones
\* delivered before it
PeekConserves ==
  /\ info.peek_len \in 0 .. PEEK_BUFFER_SIZE
  /\ delivered \o PeekBuffered \o endpoint.data = Numbered(1, endpoint.arrived)
  /\ shown <= info.peek_len
  /\ (last.op = "recv" /\ last.rc > 0) =>
       /\ last.out = Numbered(last.nbefore + 1, last.nbefore + last.rc)
       /\ Len(delivered) = IF last.peek THEN last.nbefore ELSE last.nbefore + last.rc

\* C38: a peek consumes nothing and peek_len stays in 0..PEEK_BUFFER_SIZE;
\* a recv without MSG_PEEK made while bytes a peek has returned are still
\* undelivered returns those bytes, as many as it asks for, also after a
\* disconnect was detected in between.
C38_PeekedReturnedAgain ==
  /\ PeekConserves
  /\ (last.op = "recv" /\ ~last.peek /\ last.had > 0) =>
       last.rc >= Min(last.had, last.len)


====
